---------------------------- MODULE Spec2Model ----------------------------
(***************************************************************************)
(* A model of the AIMET quantization toolkit's core:                       *)
(*   - the winnowing mask primitives (aimet_common/winnow/winnow_utils.py) *)
(*   - the affine quantization math and its argument parsing               *)
(*     (aimet_torch/v2/quantization/affine/backends/__init__.py)           *)
(*   - the MinMaxQuantizer state machine                                   *)
(*     (aimet_torch/experimental/v2/quantization/quantizers/affine.py)     *)
(*   - the ConnectedGraph builder (aimet_torch/meta/connectedgraph.py)     *)
(*   - the fake-quantized and true-quantized modules and their registries  *)
(*     (aimet_torch/experimental/v2/nn/fake_quant.py, true_quant.py)       *)
(*   - the BN re-estimation (aimet_tensorflow/bn_reestimation.py)          *)
(*   - the LazyQuantizer builder (aimet_torch/.../wrappers/builder.py)     *)
(*   - the removal of nodes by type (aimet_onnx/utils.py)                  *)
(* Each subsystem has its own specification; the variables of the other    *)
(* subsystems stay at their idle values.                                   *)
(*                                                                         *)
(* Python lists are sequences; Python indices are kept 0-based as values   *)
(* and shifted by one where a sequence is indexed.  None is the string     *)
(* "None", or the empty sequence where the value is a number.  Real        *)
(* numbers are exact rationals (numerator over a stated denominator).      *)
(* Objects that Python shares by reference (Op, Product, shape lists) are  *)
(* numbered in order of creation and referred to by number; 0 is None.     *)
(***************************************************************************)
EXTENDS Integers, Sequences, FiniteSets, TLC

VARIABLES
    \* ---- winnow_utils.py
    winnow_pc,          \* "update" / "indices": the call to make; "returned" / "raised"
    original_mask,      \* update_winnowed_channels: original_mask (mutated in place)
    new_mask,           \* update_winnowed_channels: new_mask
    original_before,    \* original_mask as it was when the call was made
    more_ones_mask,     \* get_indices_among_ones_of_overlapping_ones: more_ones_mask
    less_ones_mask,     \* get_indices_among_ones_of_overlapping_ones: less_ones_mask
    indices,            \* the list get_indices_among_ones_of_overlapping_ones returned
    \* ---- v2/quantization/affine/backends/__init__.py
    affine_pc,          \* "call", then "parsed" / "raised", "quantized", "requantized"
    call_args,          \* *args of quantize / quantize_dequantize (after tensor, scale, offset)
    call_kwargs,        \* **kwargs of the call
    parsed,             \* what _parse_args returned (qmin, qmax, block_size) or the error raised
    tensor,             \* one element of the input tensor (numerator of an exact rational)
    scale,              \* its scale, over the same denominator as tensor; scale > 0
    offset,             \* its offset, an integer
    out,                \* quantize_dequantize(tensor, ...) over the same denominator
    out2,               \* quantize_dequantize(out, ...) over the same denominator
    \* ---- experimental/v2/quantization/quantizers/affine.py (one MinMaxQuantizer)
    quantizer_class,    \* "Quantize" or "QuantizeDequantize"
    min,                \* self.min, one element (an integer value)
    max,                \* self.max, one element
    bitwidth,           \* self.bitwidth
    _symmetric,         \* self._symmetric
    _signed,            \* self._signed
    params_written,     \* min and max were written since they were registered
    forward_patched,    \* self.forward is compute_encodings' forward_wrapper
    stats,              \* the encoding analyzer's accumulated statistics: <<>> or <<lo, hi>>
    returned,           \* what the last call on the quantizer returned or raised
    \* ---- meta/connectedgraph.py (one ConnectedGraph under construction)
    graph_pc,           \* the step of _construct_graph to take next; "constructed" / "raised"
    trace,              \* the nodes of the jit trace of the model, in execution order
    node_index,         \* _parse_trace_graph: the number of trace nodes parsed
    ops,                \* _parse_trace_graph: ops, what each traced value resolves to
    op_objs,            \* every Op object created, in order of creation
    product_objs,       \* every Product object created, in order of creation
    shape_objs,         \* every shape list created, in order of creation
    _ops,               \* self._ops: the ops in the dictionary, in insertion order
    ordered_ops,        \* self.ordered_ops
    _products,          \* self._products: the products in the dictionary, in insertion order
    _op_count,          \* self._op_count
    _split_count,       \* self._split_count
    ops_list,           \* _construct_graph: the ops still to be examined for a split
    exception,          \* the exception that ended the construction, "" if none
    shape_log,          \* what _fill_and_check_op_product_shapes has logged, in order
    shape_call,         \* the arguments of a call of _fill_and_check_op_product_shapes
    \* ---- experimental/v2/nn/fake_quant.py (one fake-quantized module)
    _parameters,        \* the module's parameters weight and bias: a tensor, <<>> for None
    param_quantizers,   \* self.param_quantizers: per parameter <<>> (None) or <<quantizer>>
    input_quantizers,   \* self.input_quantizers: a list of <<>> (None) or <<quantizer>>
    output_quantizers,  \* self.output_quantizers: a list of <<>> (None) or <<quantizer>>
    seen_parameters,    \* the parameters as the original forward of the last call found them
    module_returned,    \* what the last quantized_forward returned or raised
    \* ---- experimental/v2/nn/fake_quant.py, true_quant.py: the class registries
    class_objs,             \* every quantized class object created, in order of creation
    quantized_classes_map,  \* FakeQuantizationMixin.quantized_classes_map
    cls_to_qcls,            \* TrueQuantizationMixin.cls_to_qcls
    qcls_to_cls,            \* TrueQuantizationMixin.qcls_to_cls
    registry_returned,      \* what the last wrap / implements call returned or raised
    \* ---- experimental/v2/nn/true_quant.py (one true-quantized layer)
    op_key,                        \* the layer's op_key, "idle" when there is no layer
    _backends,                     \* self._backends
    allow_backend_fallback,        \* self.allow_backend_fallback
    allow_float_fallback,          \* self.allow_float_fallback
    _backend_kwargs,               \* self._backend_kwargs: per backend, the keywords set
    _CURRENT_TRUE_QUANT_BACKEND,   \* the default operator libraries
    selected,                      \* what the last select_operator returned or raised
    \* ---- aimet_tensorflow/bn_reestimation.py (one call of reestimate_bn_stats)
    bn_pc,               \* where the call is
    sess,                \* the values of the session's BN variables
    bn_dataset_iterator, \* the batches the dataset has not yielded yet
    bn_num_batches,      \* the number of batches asked for
    batch_index,         \* the loop variable
    sum_dict,            \* per moving mean / variance, the sum of the values read
    bn_checkpoints,      \* the values saved before the re-estimation
    seen_values,         \* the values read after each batch, in order
    bn_returned,         \* "" while the call runs, "handle", or the exception raised
    \* ---- experimental/v2/quantization/wrappers/builder.py (one LazyQuantizer)
    quant_scheme,                  \* self.quant_scheme
    _encoding_min_max_fixed_vals,  \* self._encoding_min_max_fixed_vals
    builder_returned,              \* what the last assignment did: the value and the outcome
    \* ---- aimet_onnx/utils.py (one call of remove_nodes_with_type)
    onnx_pc,             \* "called", "returned" or "raised"
    node_type,           \* the op type to remove
    onnx_graph,          \* the graph: its node list
    original_graph,      \* the graph as it was given to the call
    onnx_exception       \* the exception the call raised, "" if none

winnow_vars == <<winnow_pc, original_mask, new_mask, original_before,
                 more_ones_mask, less_ones_mask, indices>>

affine_vars == <<affine_pc, call_args, call_kwargs, parsed, tensor, scale, offset, out, out2>>

quantizer_vars == <<quantizer_class, min, max, bitwidth, _symmetric, _signed,
                    params_written, forward_patched, stats, returned>>

graph_vars == <<graph_pc, trace, node_index, ops, op_objs, product_objs, shape_objs, _ops,
                ordered_ops, _products, _op_count, _split_count, ops_list, exception,
                shape_log, shape_call>>

module_vars == <<_parameters, param_quantizers, input_quantizers, output_quantizers,
                 seen_parameters, module_returned>>

registry_vars == <<class_objs, quantized_classes_map, cls_to_qcls, qcls_to_cls,
                   registry_returned>>

layer_vars == <<op_key, _backends, allow_backend_fallback, allow_float_fallback,
                _backend_kwargs, _CURRENT_TRUE_QUANT_BACKEND, selected>>

bn_vars == <<bn_pc, sess, bn_dataset_iterator, bn_num_batches, batch_index, sum_dict,
             bn_checkpoints, seen_values, bn_returned>>

builder_vars == <<quant_scheme, _encoding_min_max_fixed_vals, builder_returned>>

onnx_vars == <<onnx_pc, node_type, onnx_graph, original_graph, onnx_exception>>

vars == <<winnow_vars, affine_vars, quantizer_vars, graph_vars, module_vars, registry_vars,
          layer_vars, bn_vars, builder_vars, onnx_vars>>

\* what the operations of one part leave alone: the variables of the other parts
outside_winnow == <<affine_vars, quantizer_vars, graph_vars, module_vars, registry_vars,
                    layer_vars, bn_vars,
                       builder_vars, onnx_vars>>
outside_affine == <<winnow_vars, quantizer_vars, graph_vars, module_vars, registry_vars,
                    layer_vars, bn_vars,
                       builder_vars, onnx_vars>>
outside_quantizer == <<winnow_vars, affine_vars, graph_vars, module_vars, registry_vars,
                       layer_vars, bn_vars,
                       builder_vars, onnx_vars>>
outside_graph == <<winnow_vars, affine_vars, quantizer_vars, module_vars, registry_vars,
                   layer_vars, bn_vars,
                       builder_vars, onnx_vars>>
outside_module == <<winnow_vars, affine_vars, quantizer_vars, graph_vars, registry_vars,
                    layer_vars, bn_vars,
                       builder_vars, onnx_vars>>
outside_registry == <<winnow_vars, affine_vars, quantizer_vars, graph_vars, module_vars,
                      layer_vars, bn_vars,
                       builder_vars, onnx_vars>>
outside_layer == <<winnow_vars, affine_vars, quantizer_vars, graph_vars, module_vars,
                   registry_vars, bn_vars,
                       builder_vars, onnx_vars>>
outside_bn == <<winnow_vars, affine_vars, quantizer_vars, graph_vars, module_vars,
               registry_vars, layer_vars, builder_vars, onnx_vars>>
outside_builder == <<winnow_vars, affine_vars, quantizer_vars, graph_vars, module_vars,
                    registry_vars, layer_vars, bn_vars, onnx_vars>>
outside_onnx == <<winnow_vars, affine_vars, quantizer_vars, graph_vars, module_vars,
                 registry_vars, layer_vars, bn_vars, builder_vars>>

None == "None"

\* ------------------------------------------------------------------------
\* Generic helpers
\* ------------------------------------------------------------------------
RECURSIVE SeqsUpTo(_, _)
SeqsUpTo(S, n) ==
    IF n = 0 THEN {<<>>}
    ELSE LET shorter == SeqsUpTo(S, n - 1)
         IN  shorter \cup {Append(s, x) : s \in {t \in shorter : Len(t) = n - 1}, x \in S}

RECURSIVE SumSeq(_)
SumSeq(s) == IF s = <<>> THEN 0 ELSE Head(s) + SumSeq(Tail(s))

\* ------------------------------------------------------------------------
\* Bounds
\* ------------------------------------------------------------------------
MaxMaskLen == 4
MaxBitwidth == 3      \* bitwidths 1..MaxBitwidth, num_bins 1..2^MaxBitwidth - 1
MaxTensor == 9        \* tensor numerators -MaxTensor..MaxTensor
MaxScale == 3         \* scale numerators 1..MaxScale
MaxOffset == 2        \* offsets -MaxOffset..MaxOffset
MaxValue == 1         \* quantizer ranges and inputs -MaxValue..MaxValue (and the example's)
MaxNodes == 3         \* trace nodes before the model's output, 1..MaxNodes (and the examples')
MaxClasses == 3       \* quantized class objects created, 0..MaxClasses

\* ------------------------------------------------------------------------
\* The idle values of each subsystem's variables
\* ------------------------------------------------------------------------
NotParsed == [raised |-> "", qmin |-> 0, qmax |-> 0, block_size |-> None]

WinnowIdle ==
    /\ winnow_pc = "idle"
    /\ original_mask = <<>> /\ new_mask = <<>> /\ original_before = <<>>
    /\ more_ones_mask = <<>> /\ less_ones_mask = <<>> /\ indices = None

AffineIdle ==
    /\ affine_pc = "idle"
    /\ call_args = <<>> /\ call_kwargs = <<>> /\ parsed = NotParsed
    /\ tensor = 0 /\ scale = 1 /\ offset = 0 /\ out = 0 /\ out2 = 0

\* what a call returned: kind is "None" (nothing yet, or a call that returns None), the
\* name of the exception raised, or "output" with the output element num / den, the
\* offset of the encoding attached to it, and whether is_initialized() held in forward;
\* "encodings" with the list get_legacy_encodings returned
NoReturn == [call |-> "", kind |-> "None", num |-> 0, den |-> 1, encoding_offset |-> 0,
             initialized |-> FALSE, encodings |-> <<>>]

QuantizerIdle ==
    /\ quantizer_class = "idle"
    /\ min = 0 /\ max = 0 /\ bitwidth = 1 /\ _symmetric = FALSE /\ _signed = FALSE
    /\ params_written = FALSE /\ forward_patched = FALSE /\ stats = <<>>
    /\ returned = NoReturn

\* no call of _fill_and_check_op_product_shapes is followed on its own; a shape is the
\* number of a shape list, 0 is None
NoShapeCall == [op |-> 0, input_shape |-> 0, output_shape |-> 0]

GraphIdle ==
    /\ graph_pc = "idle"
    /\ trace = <<>> /\ node_index = 0 /\ ops = <<>>
    /\ op_objs = <<>> /\ product_objs = <<>> /\ shape_objs = <<>>
    /\ _ops = <<>> /\ ordered_ops = <<>> /\ _products = <<>>
    /\ _op_count = 0 /\ _split_count = 0 /\ ops_list = <<>> /\ exception = ""
    /\ shape_log = <<>> /\ shape_call = NoShapeCall

\* what quantized_forward returned: kind is "" (no call yet), "output" or the name of the
\* exception raised; forward_ran tells whether the original forward was reached
NoModuleReturn ==
    [kind |-> "", forward_ran |-> FALSE, inputs |-> <<>>, forward_inputs |-> <<>>,
     forward_outputs |-> <<>>, outputs |-> <<>>]

NoParameters == [weight |-> <<>>, bias |-> <<>>]

ModuleIdle ==
    /\ _parameters = NoParameters
    /\ param_quantizers = [weight |-> <<>>, bias |-> <<>>]
    /\ input_quantizers = <<>> /\ output_quantizers = <<>>
    /\ seen_parameters = NoParameters
    /\ module_returned = NoModuleReturn

\* what a wrap / implements call returned: kind is "" (no call yet), "class" with the
\* class object returned, or the name of the exception raised
NoRegistryReturn == [call |-> "", mixin |-> "", module_cls |-> "", kind |-> "", cls |-> 0]

RegistryIdle ==
    /\ class_objs = <<>>
    /\ quantized_classes_map = <<>> /\ cls_to_qcls = <<>> /\ qcls_to_cls = <<>>
    /\ registry_returned = NoRegistryReturn

\* what select_operator returned: kind is "" (no call yet), "kernel" or "fallback" with
\* the operator, positional and keyword arguments returned, or the exception raised,
\* with the arguments that the message of the RuntimeError names
NotSelected == [kind |-> "", operator |-> "", args |-> "", kwargs |-> {},
                message_args |-> "", message_kwargs |-> {}]

LayerIdle ==
    /\ op_key = "idle"
    /\ _backends = <<>> /\ allow_backend_fallback = FALSE /\ allow_float_fallback = FALSE
    /\ _backend_kwargs = <<>> /\ _CURRENT_TRUE_QUANT_BACKEND = <<>>
    /\ selected = NotSelected

\* the values of the BN variables of a session: the moving mean and variance as exact
\* quotients, the momentum as a name, the training flag
NoSession ==
    [moving_mean |-> [num |-> 0, den |-> 1], moving_variance |-> [num |-> 0, den |-> 1],
     momentum |-> "", training |-> FALSE]

BnIdle ==
    /\ bn_pc = "idle"
    /\ sess = NoSession /\ bn_checkpoints = NoSession
    /\ bn_dataset_iterator = <<>> /\ bn_num_batches = 0 /\ batch_index = 0
    /\ sum_dict = [moving_mean |-> 0, moving_variance |-> 0]
    /\ seen_values = <<>> /\ bn_returned = ""

\* what an assignment to encoding_min_max_fixed_vals did: kind is "" (none yet), "None"
\* or the name of the exception raised; min_max_vals is the value assigned
\* A Python value assigned is its type and, for a tuple or a list, its items.
NoneValue == [type |-> "NoneType", items |-> <<>>]

NoAssignment == [kind |-> "", min_max_vals |-> NoneValue]

BuilderIdle ==
    /\ quant_scheme = "" /\ _encoding_min_max_fixed_vals = NoneValue
    /\ builder_returned = NoAssignment

NoGraph == [node |-> <<>>]

OnnxIdle ==
    /\ onnx_pc = "" /\ node_type = "" /\ onnx_graph = NoGraph /\ original_graph = NoGraph
    /\ onnx_exception = ""

OutsideWinnowIdle ==
    AffineIdle /\ QuantizerIdle /\ GraphIdle /\ ModuleIdle /\ RegistryIdle /\ LayerIdle
    /\ BnIdle /\ BuilderIdle /\ OnnxIdle
OutsideAffineIdle ==
    WinnowIdle /\ QuantizerIdle /\ GraphIdle /\ ModuleIdle /\ RegistryIdle /\ LayerIdle
    /\ BnIdle /\ BuilderIdle /\ OnnxIdle
OutsideQuantizerIdle ==
    WinnowIdle /\ AffineIdle /\ GraphIdle /\ ModuleIdle /\ RegistryIdle /\ LayerIdle
    /\ BnIdle /\ BuilderIdle /\ OnnxIdle
OutsideGraphIdle ==
    WinnowIdle /\ AffineIdle /\ QuantizerIdle /\ ModuleIdle /\ RegistryIdle /\ LayerIdle
    /\ BnIdle /\ BuilderIdle /\ OnnxIdle

\* ========================================================================
\* winnow_utils.py
\* ========================================================================

\* [idx for (idx, channel) in enumerate(mask) if <channel is truthy> = keep], from idx on
RECURSIVE EnumerateFilter(_, _, _)
EnumerateFilter(mask, idx, keep) ==
    IF idx >= Len(mask) THEN <<>>
    ELSE (IF (mask[idx + 1] # 0) = keep THEN <<idx>> ELSE <<>>)
         \o EnumerateFilter(mask, idx + 1, keep)

get_one_positions_in_binary_mask(mask) == EnumerateFilter(mask, 0, TRUE)

get_zero_positions_in_binary_mask(mask) == EnumerateFilter(mask, 0, FALSE)

\* for idx in new_mask_zero_indices: original_mask[original_mask_ones_indices[idx]] = 0
RECURSIVE ZeroOutOnes(_, _, _)
ZeroOutOnes(mask, ones_indices, zero_indices) ==
    IF zero_indices = <<>> THEN mask
    ELSE ZeroOutOnes([mask EXCEPT ![ones_indices[Head(zero_indices) + 1] + 1] = 0],
                     ones_indices, Tail(zero_indices))

\* A slip: the ones of new_mask, not its zeros, are winnowed.
update_winnowed_channels_keeps_zeros(original, new) ==
    IF Len(new) # SumSeq(original) THEN "AssertionError"
    ELSE ZeroOutOnes(original, get_one_positions_in_binary_mask(original),
                     get_one_positions_in_binary_mask(new))

\* The value original_mask holds after the call, or "AssertionError" when the
\* assertion on the lengths fails (original_mask is then untouched).
update_winnowed_channels(original, new) ==
    IF Len(new) # SumSeq(original) THEN "AssertionError"
    ELSE ZeroOutOnes(original, get_one_positions_in_binary_mask(original),
                     get_zero_positions_in_binary_mask(new))

\* The loop of get_indices_among_ones_of_overlapping_ones from position index on,
\* more_ones_mask_ones_index being the count of ones of more_ones_mask seen so far.
RECURSIVE OverlapLoop(_, _, _, _)
OverlapLoop(more, less, index, ones_index) ==
    IF index >= Len(more) THEN <<>>
    ELSE LET mask_item == more[index + 1]
             both      == (mask_item = 1) /\ (less[index + 1] = 1)   \* mask_item & less[index]
         IN  (IF both THEN <<ones_index>> ELSE <<>>)
             \o OverlapLoop(more, less, index + 1,
                            IF mask_item # 0 THEN ones_index + 1 ELSE ones_index)

\* A slip: the counter advances at every position, so absolute positions are returned.
get_indices_counting_every_position(more, less) ==
    LET RECURSIVE loop(_)
        loop(index) == IF index >= Len(more) THEN <<>>
                       ELSE (IF more[index + 1] = 1 /\ less[index + 1] = 1
                             THEN <<index>> ELSE <<>>) \o loop(index + 1)
    IN  loop(0)

get_indices_among_ones_of_overlapping_ones(more, less) == OverlapLoop(more, less, 0, 0)

\* The worked example of update_winnowed_channels' docstring.
ExampleOriginalMask == <<1, 1, 0, 1, 0, 0, 1, 1, 1, 0, 0, 1>>
ExampleNewMask == <<1, 1, 0, 0, 1, 0, 1>>
\* The worked example of get_indices_among_ones_of_overlapping_ones' docstring.
ExampleMoreOnesMask == <<1, 0, 0, 1, 1, 0, 1, 0, 1, 1>>
ExampleLessOnesMask == <<1, 0, 0, 0, 1, 0, 0, 0, 1, 0>>

Masks == SeqsUpTo({0, 1}, MaxMaskLen)

InitWinnow ==
    /\ OutsideWinnowIdle
    /\ indices = None
    /\ \/ /\ winnow_pc = "update"
          /\ \/ original_mask \in Masks /\ new_mask \in Masks
             \/ original_mask = ExampleOriginalMask /\ new_mask = ExampleNewMask
          /\ original_before = original_mask
          /\ more_ones_mask = <<>> /\ less_ones_mask = <<>>
       \/ /\ winnow_pc = "indices"
          /\ \/ /\ more_ones_mask \in Masks
                /\ less_ones_mask \in {m \in Masks : Len(m) = Len(more_ones_mask)}
             \/ more_ones_mask = ExampleMoreOnesMask /\ less_ones_mask = ExampleLessOnesMask
          /\ original_mask = <<>> /\ new_mask = <<>> /\ original_before = <<>>

UpdateWinnowedChannels ==
    /\ winnow_pc = "update"
    /\ LET after == update_winnowed_channels(original_mask, new_mask)
       IN  IF after = "AssertionError"
           THEN winnow_pc' = "update_raised" /\ UNCHANGED original_mask
           ELSE winnow_pc' = "update_returned" /\ original_mask' = after
    /\ UNCHANGED <<new_mask, original_before, more_ones_mask, less_ones_mask, indices>>
    /\ UNCHANGED outside_winnow

GetIndicesAmongOnesOfOverlappingOnes ==
    /\ winnow_pc = "indices"
    /\ indices' = get_indices_among_ones_of_overlapping_ones(more_ones_mask, less_ones_mask)
    /\ winnow_pc' = "indices_returned"
    /\ UNCHANGED <<original_mask, new_mask, original_before, more_ones_mask, less_ones_mask>>
    /\ UNCHANGED outside_winnow

NextWinnow ==
    \/ UpdateWinnowedChannels
    \/ GetIndicesAmongOnesOfOverlappingOnes

SpecWinnow == InitWinnow /\ [][NextWinnow]_vars

\* ------------------------------------------------------------------------
\* Claims about winnow_utils.py
\* ------------------------------------------------------------------------
popcount(mask) == Cardinality({i \in 1..Len(mask) : mask[i] = 1})

\* the number of ones of mask strictly before the 1-based position i
RankAmongOnes(mask, i) == Cardinality({j \in 1..(i - 1) : mask[j] = 1})

\* the 1-based position of the k-th (k = 1, 2, ...) one of mask
PositionOfOne(mask, k) ==
    CHOOSE i \in 1..Len(mask) : mask[i] = 1 /\ RankAmongOnes(mask, i) = k - 1

\* C3: update_winnowed_channels(original, new), with len(new) equal to the number of
\* ones of original, changes original in place so that its k-th one becomes 0 exactly
\* when new[k] is 0, zeros stay zeros and the length is unchanged (the docstring's
\* example included); with any other len(new) the call fails by assertion and original
\* is unchanged.
C3_UpdateWinnowedChannels ==
    /\ winnow_pc = "update_raised" =>
           /\ Len(new_mask) # popcount(original_before)
           /\ original_mask = original_before
    /\ winnow_pc = "update_returned" =>
           /\ Len(new_mask) = popcount(original_before)
           /\ Len(original_mask) = Len(original_before)
           /\ \A i \in 1..Len(original_before) :
                  /\ original_before[i] = 0 => original_mask[i] = 0
                  /\ original_before[i] = 1 =>
                         /\ original_mask[i] \in {0, 1}
                         /\ original_mask[i] = 0 <=>
                                new_mask[RankAmongOnes(original_before, i) + 1] = 0
           /\ (original_before = ExampleOriginalMask /\ new_mask = ExampleNewMask) =>
                  original_mask = <<1, 1, 0, 0, 0, 0, 0, 1, 0, 0, 0, 1>>

C3_Witness ==
    /\ winnow_pc = "update_returned"
    /\ original_before = ExampleOriginalMask
    /\ new_mask = ExampleNewMask
    /\ original_mask # original_before

\* the ones of small are ones of big at the same positions
OnesSubset(big, small) ==
    /\ Len(big) = Len(small)
    /\ \A i \in 1..Len(small) : small[i] = 1 => big[i] = 1

\* C4: for equal-length masks big, small with small's ones among big's ones,
\* get_indices_among_ones_of_overlapping_ones(big, small) is strictly increasing, has
\* popcount(small) elements, each below popcount(big), and its j-th element is the rank
\* among big's ones of the position of the j-th one of small.
C4_OverlapIndices ==
    (winnow_pc = "indices_returned" /\ OnesSubset(more_ones_mask, less_ones_mask)) =>
        /\ Len(indices) = popcount(less_ones_mask)
        /\ \A j \in 1..Len(indices) :
               /\ indices[j] < popcount(more_ones_mask)
               /\ indices[j] >= 0
               /\ j > 1 => indices[j - 1] < indices[j]
               /\ indices[j] = RankAmongOnes(more_ones_mask, PositionOfOne(less_ones_mask, j))

C4_Witness ==
    /\ winnow_pc = "indices_returned"
    /\ more_ones_mask = ExampleMoreOnesMask
    /\ less_ones_mask = ExampleLessOnesMask
    /\ indices = <<0, 2, 4>>

\* ========================================================================
\* v2/quantization/affine/backends/__init__.py
\* ========================================================================
RECURSIVE Pow2(_)
Pow2(n) == IF n <= 0 THEN 1 ELSE 2 * Pow2(n - 1)

Abs(n) == IF n < 0 THEN -n ELSE n

\* The nearest integer to n / d (d # 0), ties to the even integer: torch.round.
RoundHalfEven(n, d) ==
    LET num == IF d < 0 THEN -n ELSE n
        den == Abs(d)
        q   == num \div den          \* floor
        r   == num % den             \* 0 <= r < den
    IN  IF 2 * r < den THEN q
        ELSE IF 2 * r > den THEN q + 1
        ELSE IF q % 2 = 0 THEN q ELSE q + 1

\* floor(n / d), d > 0
FloorDiv(n, d) == n \div d

\* torch.clamp(v, lo, hi) = min(max(v, lo), hi)
clamp(v, lo, hi) ==
    LET raised == IF v < lo THEN lo ELSE v
    IN  IF raised > hi THEN hi ELSE raised

\* math.ceil(num_bins / 2) and math.floor(num_bins / 2) of an integer num_bins
CeilHalf(n) == (n + 1) \div 2
FloorHalf(n) == n \div 2

\* kwargs.get(key, default)
KwGet(kwargs, key, default) == IF key \in DOMAIN kwargs THEN kwargs[key] ELSE default

\* An optional value: <<>> is None, <<v>> is the value v.
IsNone(opt) == opt = <<>>
ValueOf(opt) == opt[1]

\* _parse_args(args, kwargs): the tuple (qmin, qmax, block_size) as a record, raised
\* being "" ; or the exception raised (qmin and qmax are then not returned).
_parse_args(args, kwargs) ==
    LET block_size == KwGet(kwargs, "block_size", None)
        \* bitwidth = num_bins = signed = qmin = qmax = None
        none == [raised |-> "", bitwidth |-> <<>>, num_bins |-> <<>>, signed |-> FALSE,
                 qmin |-> <<>>, qmax |-> <<>>]
        given ==
            IF Len(args) = 2
            THEN [none EXCEPT !.bitwidth = <<args[1]>>, !.signed = args[2]]
            ELSE IF Len(args) = 1
            THEN [none EXCEPT !.bitwidth = <<args[1]>>,
                              !.signed = KwGet(kwargs, "signed", FALSE)]
            ELSE IF "bitwidth" \in DOMAIN kwargs
            THEN [none EXCEPT !.bitwidth = <<kwargs["bitwidth"]>>,
                              !.signed = KwGet(kwargs, "signed", FALSE)]
            ELSE IF "num_bins" \in DOMAIN kwargs
            THEN [none EXCEPT !.num_bins = <<kwargs["num_bins"]>>,
                              !.signed = KwGet(kwargs, "signed", FALSE)]
            ELSE IF "qmin" \in DOMAIN kwargs /\ "qmax" \in DOMAIN kwargs
            THEN [none EXCEPT !.qmin = <<kwargs["qmin"]>>, !.qmax = <<kwargs["qmax"]>>]
            ELSE [none EXCEPT !.raised = "KeyError"]      \* kwargs['qmin'], kwargs['qmax']
        num_bins == IF ~IsNone(given.bitwidth) THEN <<Pow2(ValueOf(given.bitwidth)) - 1>>
                    ELSE given.num_bins
        qmin == IF ~IsNone(num_bins)
                THEN (IF given.signed THEN <<-CeilHalf(ValueOf(num_bins))>> ELSE <<0>>)
                ELSE given.qmin
        qmax == IF ~IsNone(num_bins)
                THEN (IF given.signed THEN <<FloorHalf(ValueOf(num_bins))>> ELSE num_bins)
                ELSE given.qmax
    IN  IF given.raised # ""
        THEN [raised |-> given.raised, qmin |-> 0, qmax |-> 0, block_size |-> None]
        ELSE IF IsNone(qmin) \/ IsNone(qmax)
        THEN [raised |-> "AssertionError", qmin |-> 0, qmax |-> 0, block_size |-> None]
        ELSE [raised |-> "", qmin |-> ValueOf(qmin), qmax |-> ValueOf(qmax),
              block_size |-> block_size]

\* A slip: truncation in place of round-to-nearest.
quantize_truncating(x, s, o, qmin, qmax) == clamp(FloorDiv(x, s) - o, qmin, qmax)

\* quantize: clamp(round(input / scale) - offset, qmin, qmax), an integer.
quantize(x, s, o, qmin, qmax) == clamp(RoundHalfEven(x, s) - o, qmin, qmax)

\* A slip: the offset is not added back.
dequantize_dropping_offset(x_int, s, o) == x_int * s

\* dequantize: (x_int + offset) * scale, over the denominator of scale.
dequantize(x_int, s, o) == (x_int + o) * s

\* quantize_dequantize: out = (x_int + offset) * scale.
quantize_dequantize(x, s, o, qmin, qmax) == dequantize(quantize(x, s, o, qmin, qmax), s, o)

\* ---- the calls the three overloads of quantize / quantize_dequantize declare
Bitwidths == 1..MaxBitwidth
NumBins == 1..(Pow2(MaxBitwidth) - 1)
BlockSizes == {None, "[2]"}

\* the keyword arguments named by keys, with the values of v
Kw(keys, v) == [k \in keys |-> v[k]]

ArgValues ==
    [bitwidth : Bitwidths, signed : BOOLEAN, block_size : BlockSizes,
     num_bins : NumBins, qmin : -Pow2(MaxBitwidth - 1)..0, qmax : 0..(Pow2(MaxBitwidth) - 1)]

\* (tensor, scale, offset, bitwidth, signed=False, block_size=None): the first p
\* of bitwidth, signed, block_size are positional, any of the rest are keywords.
BitwidthCalls ==
    {[args |-> SubSeq(<<v.bitwidth, v.signed, v.block_size>>, 1, p), kwargs |-> Kw(keys, v)] :
        v \in {w \in ArgValues : w.num_bins = 1 /\ w.qmin = 0 /\ w.qmax = 0},
        p \in 0..3,
        keys \in SUBSET {"bitwidth", "signed", "block_size"}}

\* a keyword is given only for a parameter not given positionally, and bitwidth is given
DeclaredBitwidthCalls ==
    {c \in BitwidthCalls :
        LET positional == {<<"bitwidth", "signed", "block_size">>[i] : i \in 1..Len(c.args)}
        IN  /\ DOMAIN c.kwargs \cap positional = {}
            /\ "bitwidth" \in positional \cup DOMAIN c.kwargs}

\* (tensor, scale, offset, *, num_bins, signed=False, block_size=None)
DeclaredNumBinsCalls ==
    {[args |-> <<>>, kwargs |-> Kw({"num_bins"} \cup keys, v)] :
        v \in {w \in ArgValues : w.bitwidth = 1 /\ w.qmin = 0 /\ w.qmax = 0},
        keys \in SUBSET {"signed", "block_size"}}

\* (tensor, scale, offset, *, qmin, qmax, block_size=None)
DeclaredQminQmaxCalls ==
    {[args |-> <<>>, kwargs |-> Kw({"qmin", "qmax"} \cup keys, v)] :
        v \in {w \in ArgValues : w.bitwidth = 1 /\ w.num_bins = 1 /\ ~w.signed},
        keys \in SUBSET {"block_size"}}

DeclaredCalls == DeclaredBitwidthCalls \cup DeclaredNumBinsCalls \cup DeclaredQminQmaxCalls

InitAffine ==
    /\ OutsideAffineIdle
    /\ affine_pc = "call"
    /\ \E c \in DeclaredCalls : call_args = c.args /\ call_kwargs = c.kwargs
    /\ parsed = NotParsed
    /\ tensor \in -MaxTensor..MaxTensor
    /\ scale \in 1..MaxScale
    /\ offset \in -MaxOffset..MaxOffset
    /\ out = 0 /\ out2 = 0

\* qmin, qmax, block_size = _parse_args(args, kwargs)
ParseArgs ==
    /\ affine_pc = "call"
    /\ parsed' = _parse_args(call_args, call_kwargs)
    /\ affine_pc' = IF parsed'.raised # "" THEN "raised" ELSE "parsed"
    /\ UNCHANGED <<call_args, call_kwargs, tensor, scale, offset, out, out2>>
    /\ UNCHANGED outside_affine

\* return get_backend().quantize_dequantize(tensor, scale, offset, qmin, qmax, block_size)
QuantizeDequantize ==
    /\ affine_pc = "parsed"
    /\ out' = quantize_dequantize(tensor, scale, offset, parsed.qmin, parsed.qmax)
    /\ affine_pc' = "quantized"
    /\ UNCHANGED <<call_args, call_kwargs, parsed, tensor, scale, offset, out2>>
    /\ UNCHANGED outside_affine

\* a second quantize_dequantize of the result, with the same scale, offset, qmin, qmax
QuantizeDequantizeAgain ==
    /\ affine_pc = "quantized"
    /\ out2' = quantize_dequantize(out, scale, offset, parsed.qmin, parsed.qmax)
    /\ affine_pc' = "requantized"
    /\ UNCHANGED <<call_args, call_kwargs, parsed, tensor, scale, offset, out>>
    /\ UNCHANGED outside_affine

NextAffine ==
    \/ ParseArgs
    \/ QuantizeDequantize
    \/ QuantizeDequantizeAgain

SpecAffine == InitAffine /\ [][NextAffine]_vars

\* ------------------------------------------------------------------------
\* Claims about the affine quantization math
\* ------------------------------------------------------------------------
Quantized == affine_pc \in {"quantized", "requantized"}

WithinRepresentableRange ==
    /\ 2 * tensor >= 2 * (parsed.qmin + offset) * scale - scale
    /\ 2 * tensor <= 2 * (parsed.qmax + offset) * scale + scale

CallBitwidth ==
    IF Len(call_args) >= 1 THEN <<call_args[1]>>
    ELSE IF "bitwidth" \in DOMAIN call_kwargs THEN <<call_kwargs["bitwidth"]>> ELSE <<>>

CallSigned ==
    IF Len(call_args) >= 2 THEN call_args[2] ELSE KwGet(call_kwargs, "signed", FALSE)

CallNumBins ==
    IF ~IsNone(CallBitwidth) THEN <<Pow2(ValueOf(CallBitwidth)) - 1>>
    ELSE IF "num_bins" \in DOMAIN call_kwargs THEN <<call_kwargs["num_bins"]>> ELSE <<>>

\* C7: for every call form the overloads declare, _parse_args returns: unsigned,
\* qmin = 0 and qmax = 2^bw - 1; signed, qmin = -ceil((2^bw - 1)/2) and
\* qmax = floor((2^bw - 1)/2); the same with num_bins for 2^bw - 1; explicit qmin and
\* qmax as given.  Hence qmax - qmin = 2^bw - 1 for both signedness values.
C7_ParsedRange ==
    affine_pc \in {"parsed", "raised", "quantized", "requantized"} =>
        /\ parsed.raised = ""
        /\ ~IsNone(CallNumBins) =>
               LET n == ValueOf(CallNumBins)
               IN  /\ parsed.qmax - parsed.qmin = n
                   /\ ~CallSigned => parsed.qmin = 0 /\ parsed.qmax = n
                   /\ CallSigned =>
                          \* qmax = floor(n/2), -qmin = ceil(n/2)
                          /\ 2 * parsed.qmax <= n /\ n < 2 * (parsed.qmax + 1)
                          /\ 2 * (-parsed.qmin) >= n /\ n > 2 * (-parsed.qmin - 1)
        /\ IsNone(CallNumBins) =>
               parsed.qmin = call_kwargs["qmin"] /\ parsed.qmax = call_kwargs["qmax"]
        /\ parsed.block_size =
               (IF Len(call_args) >= 3 THEN call_args[3]
                ELSE KwGet(call_kwargs, "block_size", None))

\* ========================================================================
\* experimental/v2/quantization/quantizers/affine.py: MinMaxQuantizer
\* ========================================================================
\* The quantizer holds one element (shape ()); min, max and the inputs are integers, the
\* scale is the exact rational <<numerator, denominator>>.

Values == (-MaxValue..MaxValue) \cup {-2, 6}
QuantizerBitwidths == {1, 2, 8}

\* the values of min and max in the encodings given to set_legacy_encodings
LegacyValues == {-2, 6}

\* the batches given to the quantizer inside a compute_encodings scope: two elements
Batches == {batch \in Values \X Values : batch[1] <= batch[2]}

\* QuantizerBase.is_initialized(): the quantization parameters were set after they were
\* registered.
is_initialized == params_written

\* ste_round(n / d): torch.round in the forward direction; not finite when d = 0.
ste_round(n, d) == RoundHalfEven(n, d)

\* A slip: 2 ** bitwidth bins.
scale_of_with_one_bin_too_many(mn, mx) == <<mx - mn, Pow2(bitwidth)>>

\* get_scale() with self.min = mn and self.max = mx: (self.max - self.min) / num_bins
scale_of(mn, mx) ==
    LET num_bins == Pow2(bitwidth) - 1
    IN  <<mx - mn, num_bins>>

\* A slip: the symmetric case is not told apart.
offset_of_ignoring_symmetric(mn, mx) ==
    LET sc == scale_of(mn, mx)
    IN  IF sc[1] = 0 THEN [finite |-> FALSE, value |-> 0]
        ELSE [finite |-> TRUE,
              value  |-> ste_round(mn * sc[2], sc[1])
                         + (IF _signed THEN Pow2(bitwidth - 1) ELSE 0)]

\* get_offset() with self.min = mn and self.max = mx, as [finite, value]: value is the
\* offset; finite is FALSE when the scale is 0 and min / scale is inf or nan.
offset_of(mn, mx) ==
    IF _symmetric THEN [finite |-> TRUE, value |-> 0]         \* torch.zeros_like(self.min)
    ELSE LET sc == scale_of(mn, mx)
         IN  IF sc[1] = 0 THEN [finite |-> FALSE, value |-> 0]
             ELSE [finite |-> TRUE,
                   value  |-> ste_round(mn * sc[2], sc[1])     \* self.min / self.get_scale()
                              + (IF _signed THEN Pow2(bitwidth - 1) ELSE 0)]

\* get_scale(): None (<<>>) before initialization
get_scale == IF ~is_initialized THEN <<>> ELSE <<scale_of(min, max)>>

\* get_offset(): None (<<>>) before initialization
get_offset == IF ~is_initialized THEN <<>> ELSE <<offset_of(min, max)>>

\* get_encoding(): None (<<>>) before initialization, else
\* AffineEncoding(get_scale(), get_offset(), bitwidth, signed, symmetric)
get_encoding ==
    IF ~is_initialized THEN <<>>
    ELSE << [scale |-> get_scale[1], offset |-> get_offset[1], bitwidth |-> bitwidth,
             signed |-> _signed, symmetric |-> _symmetric] >>

\* the backend's integer range for (bitwidth, signed)
backend_range(bw, signed) ==
    LET num_bins == Pow2(bw) - 1
    IN  IF signed THEN <<-CeilHalf(num_bins), FloorHalf(num_bins)>> ELSE <<0, num_bins>>

\* The body of Quantize.forward / QuantizeDequantize.forward on the element x, with
\* self.min = mn, self.max = mx and is_initialized() = initialized.
run_forward(x, mn, mx, initialized) ==
    LET sc    == scale_of(mn, mx)
        off   == offset_of(mn, mx)
        range == backend_range(bitwidth, _signed)
        x_int == quantize(x * sc[2], sc[1], off.value, range[1], range[2])
    IN  IF sc[1] = 0 \/ ~off.finite
        THEN [call |-> "forward", kind |-> "output_nan", num |-> 0, den |-> 1,
              encoding_offset |-> off.value, initialized |-> initialized,
              encodings |-> <<>>]
        ELSE IF quantizer_class = "Quantize"
        THEN [call |-> "forward", kind |-> "output", num |-> x_int, den |-> 1,
              encoding_offset |-> off.value, initialized |-> initialized,
              encodings |-> <<>>]
        ELSE [call |-> "forward", kind |-> "output",
              num |-> dequantize(x_int, sc[1], off.value), den |-> sc[2],
              encoding_offset |-> off.value, initialized |-> initialized,
              encodings |-> <<>>]

NotInitializedError ==
    [call |-> "forward", kind |-> "RuntimeError", num |-> 0, den |-> 1,
     encoding_offset |-> 0, initialized |-> FALSE, encodings |-> <<>>]

\* A slip: no check of is_initialized().
forward_unguarded(x, mn, mx, initialized) == run_forward(x, mn, mx, initialized)

\* Quantize.forward / QuantizeDequantize.forward
forward(x, mn, mx, initialized) ==
    IF ~initialized THEN NotInitializedError
    ELSE run_forward(x, mn, mx, initialized)

\* get_min() / get_max() on an initialized quantizer with a finite offset, as the exact
\* rational <<numerator, denominator>>: scale * (offset - steps), scale * (offset + steps)
get_min ==
    LET num_negative_steps == IF _signed THEN Pow2(bitwidth - 1) ELSE 0
    IN  <<scale_of(min, max)[1] * (offset_of(min, max).value - num_negative_steps),
          scale_of(min, max)[2]>>

get_max ==
    LET num_positive_steps == IF _signed THEN Pow2(bitwidth - 1) - 1 ELSE Pow2(bitwidth) - 1
    IN  <<scale_of(min, max)[1] * (offset_of(min, max).value + num_positive_steps),
          scale_of(min, max)[2]>>

\* get_legacy_encodings(): None before initialization; int(offset_) raises on an offset
\* that is nan (ValueError) or infinite (OverflowError)
get_legacy_encodings ==
    LET offset_ == offset_of(min, max).value - (IF _signed THEN Pow2(bitwidth - 1) ELSE 0)
    IN  IF ~is_initialized THEN [NoReturn EXCEPT !.call = "get_legacy_encodings"]
        ELSE IF ~offset_of(min, max).finite
        THEN [NoReturn EXCEPT !.call = "get_legacy_encodings",
                              !.kind = IF min = 0 THEN "ValueError" ELSE "OverflowError"]
        ELSE [NoReturn EXCEPT
                 !.call = "get_legacy_encodings", !.kind = "encodings",
                 !.encodings = << [min |-> get_min, max |-> get_max,
                                   scale |-> scale_of(min, max), offset |-> offset_,
                                   bitwidth |-> bitwidth, dtype |-> "int",
                                   is_symmetric |-> IF _symmetric THEN "True"
                                                    ELSE "False"] >>]

\* ---- the encoding analyzer (MinMaxEncodingAnalyzer): the observed range
Least(a, b) == IF a < b THEN a ELSE b
Greatest(a, b) == IF a > b THEN a ELSE b

batch_statistics(batch) == <<Least(batch[1], batch[2]), Greatest(batch[1], batch[2])>>

update_stats(st, batch) ==
    LET bs == batch_statistics(batch)
    IN  IF st = <<>> THEN bs ELSE <<Least(st[1], bs[1]), Greatest(st[2], bs[2])>>

compute_encodings_from_stats(st) == st

\* ---- the quantizer's operations
InitQuantizer ==
    /\ OutsideQuantizerIdle
    /\ quantizer_class \in {"Quantize", "QuantizeDequantize"}
    /\ bitwidth \in QuantizerBitwidths
    /\ _symmetric \in BOOLEAN
    /\ _signed = _symmetric
    /\ min = -1 /\ max = 1
    /\ params_written = FALSE
    /\ forward_patched = FALSE
    /\ stats = <<>>
    /\ returned = NoReturn

\* set_range(min, max)
SetRange ==
    /\ \E mn \in Values, mx \in Values :
           /\ min' = mn /\ max' = mx
    /\ params_written' = TRUE
    /\ returned' = NoReturn
    /\ UNCHANGED <<quantizer_class, bitwidth, _symmetric, _signed, forward_patched, stats>>
    /\ UNCHANGED outside_quantizer

\* quantizer.symmetric = b
SetSymmetric ==
    /\ \E b \in BOOLEAN : _symmetric' = b
    /\ returned' = NoReturn
    /\ UNCHANGED <<quantizer_class, min, max, bitwidth, _signed, params_written,
                   forward_patched, stats>>
    /\ UNCHANGED outside_quantizer

\* quantizer.signed = b
SetSigned ==
    /\ \E b \in BOOLEAN : _signed' = b
    /\ returned' = NoReturn
    /\ UNCHANGED <<quantizer_class, min, max, bitwidth, _symmetric, params_written,
                   forward_patched, stats>>
    /\ UNCHANGED outside_quantizer

\* str_to_bool of set_legacy_encodings: <<>> stands for ValueError
str_to_bool(str) ==
    IF str \in {"False", "false"} THEN <<FALSE>>
    ELSE IF str \in {"True", "true"} THEN <<TRUE>>
    ELSE <<>>

\* set_legacy_encodings([{min, max, bitwidth, is_symmetric, ...}])
SetLegacyEncodings ==
    /\ \E e \in [min : LegacyValues, max : LegacyValues, bitwidth : QuantizerBitwidths,
                 is_symmetric : {"True", "False", ""}] :
           /\ e.min <= e.max
           /\ bitwidth' = e.bitwidth
           /\ IF str_to_bool(e.is_symmetric) = <<>>
              THEN /\ returned' = [NoReturn EXCEPT !.kind = "ValueError"]
                   /\ UNCHANGED <<min, max, _symmetric, params_written>>
              ELSE /\ _symmetric' = str_to_bool(e.is_symmetric)[1]
                   /\ min' = e.min /\ max' = e.max
                   /\ params_written' = TRUE
                   /\ returned' = NoReturn
    /\ UNCHANGED <<quantizer_class, _signed, forward_patched, stats>>
    /\ UNCHANGED outside_quantizer

\* with quantizer.compute_encodings(): the scope is entered, forward is patched
EnterComputeEncodings ==
    /\ ~forward_patched
    /\ forward_patched' = TRUE
    /\ returned' = NoReturn
    /\ UNCHANGED <<quantizer_class, min, max, bitwidth, _symmetric, _signed,
                   params_written, stats>>
    /\ UNCHANGED outside_quantizer

\* quantizer(x) outside a compute_encodings scope
Forward ==
    /\ ~forward_patched
    /\ \E x \in Values :
           returned' = forward(x, min, max, is_initialized)
    /\ UNCHANGED <<quantizer_class, min, max, bitwidth, _symmetric, _signed,
                   params_written, forward_patched, stats>>
    /\ UNCHANGED outside_quantizer

\* quantizer(batch) inside the scope: forward_wrapper updates the statistics and runs
\* the original forward with min and max patched to the range of the batch; the output
\* reported is that of the first element of the batch
ForwardWrapper ==
    /\ forward_patched
    /\ \E batch \in Batches :
           LET dynamic == compute_encodings_from_stats(batch_statistics(batch))
           IN  /\ stats' = update_stats(stats, batch)
               /\ returned' = forward(batch[1], dynamic[1], dynamic[2], TRUE)
    /\ UNCHANGED <<quantizer_class, min, max, bitwidth, _symmetric, _signed,
                   params_written, forward_patched>>
    /\ UNCHANGED outside_quantizer

\* A slip: the scope is left normally and the statistics are kept for the next scope.
ExitKeepingStatistics ==
    /\ forward_patched
    /\ forward_patched' = FALSE
    /\ IF stats = <<>>
       THEN UNCHANGED <<min, max, params_written>>
       ELSE min' = stats[1] /\ max' = stats[2] /\ params_written' = TRUE
    /\ stats' = stats
    /\ returned' = NoReturn
    /\ UNCHANGED <<quantizer_class, bitwidth, _symmetric, _signed>>
    /\ UNCHANGED outside_quantizer

\* the scope is left normally: else-branch and finally-branch of compute_encodings
ExitComputeEncodings ==
    /\ forward_patched
    /\ forward_patched' = FALSE
    /\ IF stats = <<>>                                    \* StatisticsNotFoundError
       THEN UNCHANGED <<min, max, params_written>>
       ELSE LET range == compute_encodings_from_stats(stats)
            IN  min' = range[1] /\ max' = range[2] /\ params_written' = TRUE
    /\ stats' = <<>>                                      \* reset_stats()
    /\ returned' = NoReturn
    /\ UNCHANGED <<quantizer_class, bitwidth, _symmetric, _signed>>
    /\ UNCHANGED outside_quantizer

\* A slip: the except-branch commits the statistics like the else-branch.
RaiseCommittingStatistics ==
    /\ forward_patched
    /\ forward_patched' = FALSE
    /\ IF stats = <<>>
       THEN UNCHANGED <<min, max, params_written>>
       ELSE min' = stats[1] /\ max' = stats[2] /\ params_written' = TRUE
    /\ stats' = <<>>
    /\ returned' = [NoReturn EXCEPT !.kind = "Exception"]
    /\ UNCHANGED <<quantizer_class, bitwidth, _symmetric, _signed>>
    /\ UNCHANGED outside_quantizer

\* an exception leaves the scope: forward is restored, the statistics are reset, the
\* exception propagates
RaiseInComputeEncodings ==
    /\ forward_patched
    /\ forward_patched' = FALSE
    /\ stats' = <<>>
    /\ returned' = [NoReturn EXCEPT !.kind = "Exception"]
    /\ UNCHANGED <<quantizer_class, min, max, bitwidth, _symmetric, _signed, params_written>>
    /\ UNCHANGED outside_quantizer

\* quantizer.get_legacy_encodings()
GetLegacyEncodings ==
    /\ returned' = get_legacy_encodings
    /\ UNCHANGED <<quantizer_class, min, max, bitwidth, _symmetric, _signed,
                   params_written, forward_patched, stats>>
    /\ UNCHANGED outside_quantizer

NextQuantizer ==
    \/ GetLegacyEncodings
    \/ SetRange
    \/ SetSymmetric
    \/ SetSigned
    \/ SetLegacyEncodings
    \/ EnterComputeEncodings
    \/ Forward
    \/ ForwardWrapper
    \/ ExitComputeEncodings
    \/ RaiseInComputeEncodings

SpecQuantizer == InitQuantizer /\ [][NextQuantizer]_vars

\* ---- claims about the quantizer

\* n / d rounded to the nearest integer, ties to the even one
IsRounded(r, n, d) ==
    /\ 2 * Abs(r * d - n) <= Abs(d)
    /\ (2 * Abs(r * d - n) = Abs(d) => r % 2 = 0)

\* C8: an initialized MinMaxQuantizer has get_scale() = (max - min) / (2^bitwidth - 1);
\* in asymmetric mode get_offset() is min / scale rounded to the nearest integer, plus
\* 2^(bitwidth - 1) when signed (not finite when the scale is 0); bitwidth 8, asymmetric,
\* unsigned, min -2, max 6 gives scale 8/255 and offset -64.
C8_ScaleAndOffset ==
    is_initialized =>
        /\ get_scale = << <<max - min, Pow2(bitwidth) - 1>> >>
        /\ (~_symmetric /\ max # min) =>
               /\ get_offset[1].finite
               /\ IsRounded(get_offset[1].value - (IF _signed THEN Pow2(bitwidth - 1) ELSE 0),
                            min * (Pow2(bitwidth) - 1), max - min)
        /\ (~_symmetric /\ max = min) => ~get_offset[1].finite
        /\ (bitwidth = 8 /\ ~_symmetric /\ ~_signed /\ min = -2 /\ max = 6) =>
               /\ get_scale = << <<8, 255>> >>
               /\ get_offset = << [finite |-> TRUE, value |-> -64] >>

C8_Witness ==
    /\ is_initialized /\ ~forward_patched
    /\ bitwidth = 8 /\ ~_symmetric /\ ~_signed /\ min = -2 /\ max = 6
    /\ get_offset = << [finite |-> TRUE, value |-> -64] >>

\* C9 as stated: whenever the symmetric flag is true, get_offset() is 0.
C9_OffsetZeroWheneverSymmetric ==
    _symmetric => get_offset = << [finite |-> TRUE, value |-> 0] >>

\* C9: whenever the symmetric flag is true, get_offset() is 0 once the quantizer is
\* initialized and None before that, and a forward with symmetric true, dynamic ranges in
\* a compute_encodings scope included, quantizes with offset 0.
C9_OffsetZeroWhenSymmetricAndInitialized ==
    _symmetric =>
        /\ is_initialized => get_offset = << [finite |-> TRUE, value |-> 0] >>
        /\ ~is_initialized => get_offset = <<>>
        /\ returned.kind \in {"output", "output_nan"} => returned.encoding_offset = 0

C9_Witness ==
    /\ _symmetric /\ is_initialized /\ ~forward_patched
    /\ min = -2 /\ max = 6
    /\ returned.kind = "output"
    /\ get_offset = << [finite |-> TRUE, value |-> 0] >>

\* C10: a forward that finds the quantizer not initialized raises RuntimeError and returns
\* no output; outside a compute_encodings scope that is every forward on a quantizer
\* whose parameters were never set.
C10_ForwardRaisesWhenNotInitialized ==
    /\ (returned.call = "forward" /\ ~returned.initialized) => returned.kind = "RuntimeError"
    /\ (returned.call = "forward" /\ ~forward_patched /\ ~is_initialized) =>
           returned.kind = "RuntimeError"

C10_Witness ==
    /\ returned.call = "forward" /\ returned.kind = "RuntimeError"
    /\ ~is_initialized /\ ~forward_patched
    /\ quantizer_class = "QuantizeDequantize"

\* C11: an exception raised inside a compute_encodings scope leaves the scope with the
\* original forward in place again, the analyzer's statistics reset and min and max as
\* they were stored (nothing of the partial statistics is committed), and it reaches the
\* caller; the forwards made inside the scope quantize with the range of their batch and
\* leave the stored min and max as they were when the scope was entered.
C11_ExceptionLeavesScopeRestored ==
    [][forward_patched =>
          /\ (forward_patched' /\ returned'.call = "forward") =>
                 (min' = min /\ max' = max /\ params_written' = params_written)
          /\ (~forward_patched' /\ returned'.kind = "Exception") =>
                 /\ stats' = <<>>
                 /\ min' = min /\ max' = max /\ params_written' = params_written]_vars

C11_Witness ==
    /\ returned.kind = "Exception"
    /\ ~forward_patched /\ stats = <<>>
    /\ ~is_initialized /\ min = -1 /\ max = 1

\* C24: inside a compute_encodings scope every forward call widens the analyzer's
\* statistics by the batch it is given, quantizes with the range of that batch and
\* leaves the stored min and max as they were; a scope that ends normally after at least
\* one forward sets min and max to the least and the greatest value of all batches
\* observed and resets the statistics; a scope that ends normally without a forward
\* leaves min and max as they were, resets the statistics and raises nothing.
C24_ScopeObservesThenCommits ==
    [][forward_patched =>
          /\ (forward_patched' /\ returned'.call = "forward") =>
                 /\ min' = min /\ max' = max /\ params_written' = params_written
                 /\ \E batch \in Batches :
                        /\ stats'[1] = (IF stats = <<>> \/ batch[1] < stats[1]
                                        THEN batch[1] ELSE stats[1])
                        /\ stats'[2] = (IF stats = <<>> \/ batch[2] > stats[2]
                                        THEN batch[2] ELSE stats[2])
                        /\ returned' = forward(batch[1], batch[1], batch[2], TRUE)
          /\ (~forward_patched' /\ returned'.kind # "Exception") =>
                 /\ stats' = <<>>
                 /\ returned' = NoReturn
                 /\ IF stats = <<>>
                    THEN min' = min /\ max' = max /\ params_written' = params_written
                    ELSE min' = stats[1] /\ max' = stats[2] /\ is_initialized']_vars

\* inside a scope entered before any range was set, forwards have observed -1 and 6
C24_Witness ==
    /\ forward_patched /\ stats = <<-1, 6>>
    /\ returned.call = "forward" /\ returned.kind = "output"
    /\ ~is_initialized /\ min = -1 /\ max = 1

\* C16: get_legacy_encodings on an initialized quantizer returns one record per element
\* of the scale, with min, max, scale, offset, bitwidth, dtype 'int' and is_symmetric
\* 'True' or 'False'; for a signed symmetric quantizer the offset exported is
\* get_offset() - 2^(bitwidth - 1), that is -2^(bitwidth - 1), for an unsigned one it is
\* get_offset(); on a quantizer that is not initialized it returns None.
C16_LegacyEncodings ==
    returned.call = "get_legacy_encodings" =>
        IF is_initialized
        THEN /\ returned.kind = "encodings"
             /\ Len(returned.encodings) = 1
             /\ LET e == returned.encodings[1]
                IN  /\ DOMAIN e = {"min", "max", "scale", "offset", "bitwidth", "dtype",
                                   "is_symmetric"}
                    /\ e.scale = get_scale[1]
                    /\ e.bitwidth = bitwidth /\ e.dtype = "int"
                    /\ e.is_symmetric = (IF _symmetric THEN "True" ELSE "False")
                    /\ (_signed /\ _symmetric) =>
                           /\ e.offset = get_offset[1].value - Pow2(bitwidth - 1)
                           /\ e.offset = -Pow2(bitwidth - 1)
                    /\ ~_signed => e.offset = get_offset[1].value
        ELSE returned.kind = "None"

\* C21: in every state of an initialized quantizer reached by set_range,
\* set_legacy_encodings and compute_encodings scopes, the encoding get_encoding() returns
\* has a scale greater than 0.
C21_ScalePositive ==
    is_initialized => get_encoding[1].scale[1] > 0 /\ get_encoding[1].scale[2] > 0

\* ========================================================================
\* meta/connectedgraph.py: ConnectedGraph
\* ========================================================================

\* ---- names.  The op name op_type + '_' + str(count) is [type, count]; the product name
\* parent + sep + child is [parent, sep, child]; a module's dotted name is
\* [type |-> "module", count |-> the module's number].
NoName == [type |-> "", count |-> -1]

OpName(type, count) == [type |-> type, count |-> count]

ProductName(parent, sep, child) == [parent |-> parent, sep |-> sep, child |-> child]

MultipleOps == [type |-> "multiple_ops", count |-> -1]

ModuleName(module) == [type |-> "module", count |-> module]

\* the characters of an op type
TypeChars(type) ==
    CASE type = "convolution" -> <<"c", "o", "n", "v", "o", "l", "u", "t", "i", "o", "n">>
      [] type = "relu" -> <<"r", "e", "l", "u">>
      [] type = "add" -> <<"a", "d", "d">>
      [] type = "mul" -> <<"m", "u", "l">>
      [] type = "cat" -> <<"c", "a", "t">>
      [] type = "size" -> <<"s", "i", "z", "e">>
      [] type = "view" -> <<"v", "i", "e", "w">>
      [] type = "max" -> <<"m", "a", "x">>
      [] type = "TupleConstruct" ->
             <<"T", "u", "p", "l", "e", "C", "o", "n", "s", "t", "r", "u", "c", "t">>
      [] type = "TupleUnpack" -> <<"T", "u", "p", "l", "e", "U", "n", "p", "a", "c", "k">>
      [] type = "Split" -> <<"S", "p", "l", "i", "t">>
      [] type = "multiple_ops" ->
             <<"m", "u", "l", "t", "i", "p", "l", "e", "_", "o", "p", "s">>

\* str(n) for n >= 0
RECURSIVE Digits(_)
Digits(n) ==
    LET digit == <<"0", "1", "2", "3", "4", "5", "6", "7", "8", "9">>[(n % 10) + 1]
    IN  IF n < 10 THEN <<digit>> ELSE Digits(n \div 10) \o <<digit>>

OpNameChars(name) ==
    IF name = MultipleOps THEN TypeChars(name.type)
    ELSE TypeChars(name.type) \o <<"_">> \o Digits(name.count)

SepChars(sep) ==
    IF sep = "_to_" THEN <<"_", "t", "o", "_">> ELSE <<"_", "_", "t", "o", "_", "_">>

ProductNameChars(name) ==
    OpNameChars(name.parent) \o SepChars(name.sep) \o OpNameChars(name.child)

\* ---- Python's string operations, on sequences of characters
IsAt(str, sub, i) ==
    /\ i + Len(sub) <= Len(str)
    /\ SubSeq(str, i + 1, i + Len(sub)) = sub

\* str.find(sub)
find(str, sub) ==
    IF \E i \in 0..Len(str) : IsAt(str, sub, i)
    THEN CHOOSE i \in 0..Len(str) : IsAt(str, sub, i) /\ \A j \in 0..(i - 1) : ~IsAt(str, sub, j)
    ELSE -1

\* sub in str
contains(str, sub) == find(str, sub) # -1

\* str[:pos]
slice_to(str, pos) ==
    IF pos >= 0 THEN SubSeq(str, 1, IF pos < Len(str) THEN pos ELSE Len(str))
    ELSE SubSeq(str, 1, Len(str) + pos)

\* ---- the traced model.  A trace node is
\*   [kind, type, module, inputs, outputs, tensor_output, channels]:
\*   kind "CallMethod" (the forward of leaf module number `module`), "functional", or
\*   "TupleUnpack"; inputs are the values it consumes, value 0 the model input, the other
\*   values numbered in the order the nodes define them; outputs is the number of values
\*   it defines; tensor_output tells whether its output type is a tensor (or a tuple of
\*   tensors); channels is the number of output channels of a convolution.
\* A value is described by the shapes <<N, C>> of the tensors it holds: one for a tensor,
\* several for a tuple, none for a value that is not a tensor.
InputShape == <<1, 1>>

Greater(a, b) == IF a > b THEN a ELSE b

RECURSIVE ChannelSum(_)
ChannelSum(shapes) == IF shapes = <<>> THEN 0 ELSE Head(shapes)[2] + ChannelSum(Tail(shapes))

RECURSIVE ChannelMax(_)
ChannelMax(shapes) ==
    IF shapes = <<>> THEN 0 ELSE Greater(Head(shapes)[2], ChannelMax(Tail(shapes)))

RECURSIVE Flatten(_)
Flatten(seqs) == IF seqs = <<>> THEN <<>> ELSE Head(seqs) \o Flatten(Tail(seqs))

\* the tensors among the inputs of a node
TensorInputs(node, values) ==
    Flatten([i \in 1..Len(node.inputs) |-> values[node.inputs[i] + 1]])

\* the values a node defines, given the values defined before it
NodeValues(node, values) ==
    LET tensors == TensorInputs(node, values)
        batch == tensors[1][1]
    IN  IF node.kind = "TupleUnpack" THEN [i \in 1..node.outputs |-> <<tensors[i]>>]
        ELSE IF node.outputs # 1 THEN [i \in 1..node.outputs |-> <<tensors[1]>>]
        ELSE IF ~node.tensor_output THEN << <<>> >>
        ELSE IF node.type = "TupleConstruct" THEN <<tensors>>
        ELSE IF node.type = "convolution" THEN << <<<<batch, node.channels>>>> >>
        ELSE IF node.type = "cat" THEN << <<<<batch, ChannelSum(tensors)>>>> >>
        ELSE IF node.type \in {"add", "mul"} THEN << <<<<batch, ChannelMax(tensors)>>>> >>
        ELSE << <<tensors[1]>> >>

\* the values of the first n nodes of a trace, the model input first
RECURSIVE TraceValues(_, _)
TraceValues(tr, n) ==
    IF n = 0 THEN << <<InputShape>> >>
    ELSE LET before == TraceValues(tr, n - 1)
         IN  before \o NodeValues(tr[n], before)

\* the number of the first value node n defines
FirstValue(tr, n) == Len(TraceValues(tr, n - 1))

\* module_tensor_tuples_map[module]: the shapes of the first input tensor and of the
\* output tensors of the module's forward, as the forward hook recorded them last
LastCall(tr, module) ==
    CHOOSE n \in 1..Len(tr) :
        /\ tr[n].kind = "CallMethod" /\ tr[n].module = module
        /\ \A later \in (n + 1)..Len(tr) :
               ~(tr[later].kind = "CallMethod" /\ tr[later].module = module)

module_tensor_tuples_map(tr, module) ==
    LET n == LastCall(tr, module)
        values == TraceValues(tr, n)
    IN  [input_shape  |-> TensorInputs(tr[n], values)[1],
         output_shape |-> values[FirstValue(tr, n) + 1][1]]

\* ---- the graph under construction, as one record
Graph ==
    [ops |-> ops, op_objs |-> op_objs, product_objs |-> product_objs,
     shape_objs |-> shape_objs, _ops |-> _ops, ordered_ops |-> ordered_ops,
     _products |-> _products, _op_count |-> _op_count, _split_count |-> _split_count,
     exception |-> exception, shape_log |-> shape_log]

Raise(g, e) == IF g.exception = "" THEN [g EXCEPT !.exception = e] ELSE g

\* Op(name, dotted_name, output_shape, is_anonymous, op_type)
Op(name, dotted_name, output_shape, op_type) ==
    [name |-> name, dotted_name |-> dotted_name, type |-> op_type, inputs |-> <<>>,
     output |-> 0, output_shape |-> output_shape, model_module |-> 0]

\* Product(name, shape)
Product(name, shape) ==
    [name |-> name, shape |-> shape, producer |-> 0, consumers |-> <<>>,
     is_model_input |-> FALSE, is_parm |-> FALSE]

RemoveAt(seq, i) == SubSeq(seq, 1, i - 1) \o SubSeq(seq, i + 1, Len(seq))

\* the position of the key `name` in self._products, 0 if it is not a key
KeyIndex(g, name) ==
    LET hits == {i \in 1..Len(g._products) : g.product_objs[g._products[i]].name = name}
    IN  IF hits = {} THEN 0 ELSE CHOOSE i \in hits : TRUE

\* self._products.get(name, None)
get_product(g, name) ==
    IF KeyIndex(g, name) = 0 THEN 0 ELSE g._products[KeyIndex(g, name)]

\* self._products[product.name] = product
SetProduct(g, product) ==
    LET i == KeyIndex(g, g.product_objs[product].name)
    IN  IF i = 0 THEN [g EXCEPT !._products = Append(@, product)]
        ELSE [g EXCEPT !._products[i] = product]

\* self._products.pop(name)
PopProduct(g, name) ==
    LET i == KeyIndex(g, name)
    IN  IF i = 0 THEN Raise(g, "KeyError")
        ELSE [g EXCEPT !._products = RemoveAt(@, i)]

\* list(...): a new shape list
NewShape(g, shape) == [g EXCEPT !.shape_objs = Append(@, shape)]

\* bool(shape): neither None nor empty
Truthy(g, shape) == shape # 0 /\ g.shape_objs[shape] # <<>>

\* _create_and_link_inter_op_product(parent_op, current_op)
_create_and_link_inter_op_product(g, parent_op, current_op) ==
    LET product_name == ProductName(g.op_objs[parent_op].name, "_to_",
                                    g.op_objs[current_op].name)
        found == get_product(g, product_name)
        created == Len(g.product_objs) + 1
        input_product == IF found = 0 THEN created ELSE found
        g1 == IF found = 0
              THEN [g EXCEPT !.product_objs =
                                 Append(@, Product(product_name,
                                                   g.op_objs[parent_op].output_shape)),
                             !._products = Append(@, created)]
              ELSE g
        g2 == [g1 EXCEPT !.op_objs[parent_op].output = input_product,
                         !.product_objs[input_product].producer = parent_op,
                         !.product_objs[input_product].consumers = Append(@, current_op)]
    IN  [g2 EXCEPT !.op_objs[current_op].inputs = Append(@, input_product)]

\* _associate_op_with_parameter_product(op, parameter_product): the model input carries
\* no module
_associate_op_with_parameter_product(g, op, parameter_product) ==
    [g EXCEPT !.product_objs[parameter_product].consumers = Append(@, op),
              !.op_objs[op].inputs = Append(@, parameter_product)]

\* the loop of _create_op_and_products over the inputs
RECURSIVE LinkInputs(_, _, _)
LinkInputs(g, op, inputs) ==
    IF inputs = <<>> THEN g
    ELSE LET resolved_inp == g.ops[Head(inputs) + 1]
             g1 == IF resolved_inp.kind = "Op"
                   THEN _create_and_link_inter_op_product(g, resolved_inp.id, op)
                   ELSE _associate_op_with_parameter_product(g, op, resolved_inp.id)
         IN  LinkInputs(g1, op, Tail(inputs))

\* _create_op_and_products(op_type, inputs, ops), with _make_unique_op_name; the new op
\* is the last of op_objs
_create_op_and_products(g, op_type, inputs) ==
    LET unique_op_name == OpName(op_type, g._op_count)
        op == Len(g.op_objs) + 1
        g1 == [g EXCEPT !._op_count = @ + 1,
                        !.op_objs = Append(@, Op(unique_op_name, unique_op_name, 0, op_type)),
                        !.ordered_ops = Append(@, op),
                        !._ops = Append(@, op)]
    IN  LinkInputs(g1, op, inputs)

\* shape[1:]
Rest(shape) == IF shape = <<>> THEN <<>> ELSE Tail(shape)

\* logger.warning(...) / logger.error(...) about a product
Log(g, level, product) ==
    [g EXCEPT !.shape_log = Append(@, [level |-> level, product |-> product])]

\* the loop over op.inputs if a mismatch replaced the recorded shape by the observed one
RECURSIVE FillInputShapesOverwriting(_, _, _)
FillInputShapesOverwriting(g, inputs, input_shape) ==
    IF inputs = <<>> \/ g.exception # "" THEN g
    ELSE LET inp == Head(inputs)
             g1 == IF g.product_objs[inp].is_parm THEN g
                   ELSE IF Truthy(g, g.product_objs[inp].shape)
                   THEN (IF input_shape = 0 THEN Raise(g, "TypeError")
                         ELSE IF Rest(g.shape_objs[g.product_objs[inp].shape])
                                     # Rest(g.shape_objs[input_shape])
                         THEN [Log(g, "warning", inp) EXCEPT
                                   !.product_objs[inp].shape = input_shape]
                         ELSE g)
                   ELSE [g EXCEPT !.product_objs[inp].shape = input_shape]
         IN  FillInputShapesOverwriting(g1, Tail(inputs), input_shape)

\* the loop of _fill_and_check_op_product_shapes over op.inputs
RECURSIVE FillInputShapes(_, _, _)
FillInputShapes(g, inputs, input_shape) ==
    IF inputs = <<>> \/ g.exception # "" THEN g
    ELSE LET inp == Head(inputs)
             g1 == IF g.product_objs[inp].is_parm THEN g
                   ELSE IF Truthy(g, g.product_objs[inp].shape)
                   THEN (IF input_shape = 0 THEN Raise(g, "TypeError")   \* None[1:]
                         ELSE IF Rest(g.shape_objs[g.product_objs[inp].shape])
                                     # Rest(g.shape_objs[input_shape])
                         THEN Log(g, "warning", inp)
                         ELSE g)
                   ELSE [g EXCEPT !.product_objs[inp].shape = input_shape]
         IN  FillInputShapes(g1, Tail(inputs), input_shape)

\* _fill_and_check_op_product_shapes(op, input_shape, output_shape)
_fill_and_check_op_product_shapes(g, op, input_shape, output_shape) ==
    LET g1 == [g EXCEPT !.op_objs[op].output_shape = output_shape]
        g2 == FillInputShapes(g1, g1.op_objs[op].inputs, input_shape)
        output == g2.op_objs[op].output
    IN  IF g2.exception # "" \/ output = 0 THEN g2
        ELSE IF Truthy(g2, g2.product_objs[output].shape)
        THEN (IF output_shape = 0 THEN Raise(g2, "TypeError")         \* None[1:]
              ELSE IF Rest(g2.shape_objs[g2.product_objs[output].shape])
                     # Rest(g2.shape_objs[output_shape])
              THEN Log(g2, "error", output)
              ELSE g2)
        ELSE [g2 EXCEPT !.product_objs[output].shape = g2.op_objs[op].output_shape]

\* inp_op.shape if isinstance(inp_op, Product) else inp_op.output_shape
ShapeOfResolved(g, value) ==
    LET inp_op == g.ops[value + 1]
    IN  IF inp_op.kind = "Product" THEN g.product_objs[inp_op.id].shape
        ELSE g.op_objs[inp_op.id].output_shape

\* _create_leaf_module_op(model, inputs, ops, module_tensor_tuples_map) for trace node n
_create_leaf_module_op(g, tr, n) ==
    LET op == Len(g.op_objs) + 1
        g1 == _create_op_and_products(g, tr[n].type, tr[n].inputs)
        g2 == [g1 EXCEPT !.op_objs[op].model_module = tr[n].module,
                         !.op_objs[op].dotted_name = ModuleName(tr[n].module)]
        tensors == module_tensor_tuples_map(tr, tr[n].module)
        output_shape == Len(g2.shape_objs) + 1
        input_shape == Len(g2.shape_objs) + 2
        g3 == NewShape(NewShape(g2, tensors.output_shape), tensors.input_shape)
    IN  _fill_and_check_op_product_shapes(g3, op, input_shape, output_shape)

\* _create_functional_op(node, ops) for trace node n
_create_functional_op(g, tr, n) ==
    LET op == Len(g.op_objs) + 1
        g1 == _create_op_and_products(g, tr[n].type, tr[n].inputs)
        output_shape == Len(g1.shape_objs) + 1
        g2 == NewShape(g1, TraceValues(tr, n)[FirstValue(tr, n) + 1][1])
        input_shape == ShapeOfResolved(g2, tr[n].inputs[1])
    IN  IF ~tr[n].tensor_output THEN g1
        ELSE _fill_and_check_op_product_shapes(g2, op, input_shape, output_shape)

\* the loop of _create_tuple_ops over the outputs of TupleUnpack node n, from output i on
RECURSIVE CreateTupleOps(_, _, _, _)
CreateTupleOps(g, tr, n, i) ==
    IF i > tr[n].outputs \/ g.exception # "" THEN g
    ELSE LET op == Len(g.op_objs) + 1
             g1 == _create_op_and_products(g, tr[n].type, tr[n].inputs)
             output_tensors == TensorInputs(tr[n], TraceValues(tr, n - 1))
             output_shape == Len(g1.shape_objs) + 1
             g2 == NewShape(g1, output_tensors[i])
             input_shape == ShapeOfResolved(g2, tr[n].inputs[1])
             g3 == _fill_and_check_op_product_shapes(g2, op, input_shape, output_shape)
             g4 == [g3 EXCEPT !.ops = Append(@, [kind |-> "Op", id |-> op])]
         IN  CreateTupleOps(g4, tr, n, i + 1)

\* the body of the loop without the check of outputsSize(): a node with several outputs
\* is handled as if it had its first output only
ParseNodeKeepingFirstOutput(g, tr, n) ==
    LET op == Len(g.op_objs) + 1
        resolved == [kind |-> "Op", id |-> op]
    IN  IF tr[n].kind = "TupleUnpack" THEN CreateTupleOps(g, tr, n, 1)
        ELSE IF tr[n].kind = "CallMethod"
        THEN [_create_leaf_module_op(g, tr, n) EXCEPT !.ops = Append(@, resolved)]
        ELSE [_create_functional_op(g, tr, n) EXCEPT !.ops = Append(@, resolved)]

\* the body of the loop of _parse_trace_graph for trace node n
ParseNode(g, tr, n) ==
    LET op == Len(g.op_objs) + 1
        resolved == [kind |-> "Op", id |-> op]
    IN  IF tr[n].kind = "TupleUnpack" THEN CreateTupleOps(g, tr, n, 1)
        ELSE IF tr[n].outputs # 1 THEN Raise(g, "NotImplementedError")
        ELSE IF tr[n].kind = "CallMethod"
        THEN [_create_leaf_module_op(g, tr, n) EXCEPT !.ops = Append(@, resolved)]
        ELSE [_create_functional_op(g, tr, n) EXCEPT !.ops = Append(@, resolved)]

\* ---- _remove_tuple_ops

\* [k for k, v in self._products.items() if v.producer == op]
KeysProducedBy(g, op) ==
    LET produced == SelectSeq(g._products, LAMBDA p : g.product_objs[p].producer = op)
    IN  [i \in 1..Len(produced) |-> g.product_objs[produced[i]].name]

\* int(re.findall(r'\d+', name)[-1]) of an inter-op product name
LastNumber(name) == name.child.count

\* list.sort(key = LastNumber): a stable sort
RECURSIVE SortByLastNumber(_)
SortByLastNumber(names) ==
    IF names = <<>> THEN <<>>
    ELSE LET least == CHOOSE i \in 1..Len(names) :
                          /\ \A j \in 1..Len(names) : LastNumber(names[i]) <= LastNumber(names[j])
                          /\ \A j \in 1..(i - 1) : LastNumber(names[j]) # LastNumber(names[i])
         IN  <<names[least]>> \o SortByLastNumber(RemoveAt(names, least))

\* the loop over the consumers of one unpack product which creates and links the new
\* products and leaves the inputs of the consumers as they are
RECURSIVE RebindUnpackConsumersKeepingInputs(_, _, _, _, _)
RebindUnpackConsumersKeepingInputs(g, producer_op, unpack_op, unpack_consumers, i) ==
    IF i > Len(unpack_consumers) \/ g.exception # "" THEN g
    ELSE IF producer_op = 0 THEN Raise(g, "AttributeError")
    ELSE LET unpack_consumer == unpack_consumers[i]
             product_name == ProductName(g.op_objs[producer_op].name, "_to_",
                                         g.op_objs[unpack_consumer].name)
             input_product == Len(g.product_objs) + 1
             g1 == [g EXCEPT !.product_objs =
                                 Append(@, Product(product_name,
                                                   g.op_objs[producer_op].output_shape))]
             g2 == SetProduct(g1, input_product)
             g3 == [g2 EXCEPT !.op_objs[producer_op].output = input_product,
                              !.product_objs[input_product].producer = producer_op,
                              !.product_objs[input_product].consumers =
                                  Append(@, unpack_consumer)]
         IN  RebindUnpackConsumersKeepingInputs(g3, producer_op, unpack_op,
                                                unpack_consumers, i + 1)

\* the innermost loop: the consumers of one product of a TupleUnpack op, from the i-th on
RECURSIVE RebindUnpackConsumers(_, _, _, _, _)
RebindUnpackConsumers(g, producer_op, unpack_op, unpack_consumers, i) ==
    IF i > Len(unpack_consumers) \/ g.exception # "" THEN g
    ELSE IF producer_op = 0 THEN Raise(g, "AttributeError")           \* None.name
    ELSE LET unpack_consumer == unpack_consumers[i]
             product_name == ProductName(g.op_objs[producer_op].name, "_to_",
                                         g.op_objs[unpack_consumer].name)
             input_product == Len(g.product_objs) + 1
             g1 == [g EXCEPT !.product_objs =
                                 Append(@, Product(product_name,
                                                   g.op_objs[producer_op].output_shape))]
             g2 == SetProduct(g1, input_product)
             g3 == [g2 EXCEPT !.op_objs[producer_op].output = input_product,
                              !.product_objs[input_product].producer = producer_op,
                              !.product_objs[input_product].consumers =
                                  Append(@, unpack_consumer)]
             inputs == g3.op_objs[unpack_consumer].inputs
             g4 == [g3 EXCEPT !.op_objs[unpack_consumer].inputs =
                                  [k \in 1..Len(inputs) |->
                                      IF g3.product_objs[inputs[k]].producer = unpack_op
                                      THEN input_product ELSE inputs[k]]]
         IN  RebindUnpackConsumers(g4, producer_op, unpack_op, unpack_consumers, i + 1)

\* the loop over unpack_consumers_product, from the i-th on
RECURSIVE RebindUnpackProducts(_, _, _, _, _)
RebindUnpackProducts(g, producer_op, unpack_op, unpack_consumers_product, i) ==
    IF i > Len(unpack_consumers_product) \/ g.exception # "" THEN g
    ELSE IF KeyIndex(g, unpack_consumers_product[i]) = 0 THEN Raise(g, "KeyError")
    ELSE LET consumers ==
                 g.product_objs[get_product(g, unpack_consumers_product[i])].consumers
             g1 == RebindUnpackConsumers(g, producer_op, unpack_op, consumers, 1)
         IN  RebindUnpackProducts(g1, producer_op, unpack_op, unpack_consumers_product, i + 1)

\* the loop over zip(pack_producers, pack_consumers), from the i-th pair on; acc is
\* [g, remove_ops, remove_products]
RECURSIVE RebindTupleElements(_, _, _, _)
RebindTupleElements(acc, pack_producers, pack_consumers, i) ==
    IF i > Len(pack_producers) \/ acc.g.exception # "" THEN acc
    ELSE LET g == acc.g
             pack_producer == pack_producers[i]
             pack_consumer == pack_consumers[i]
             unpack_ops == g.product_objs[get_product(g, pack_consumer)].consumers
             unpack_op == unpack_ops[1]
             acc1 == [acc EXCEPT !.remove_products = @ \o <<pack_producer, pack_consumer>>,
                                 !.remove_ops = Append(@, unpack_op)]
             producer_op == g.product_objs[get_product(g, pack_producer)].producer
             unpack_consumers_product == KeysProducedBy(g, unpack_op)
             acc2 == IF unpack_consumers_product = <<>>
                     THEN IF producer_op = 0
                          THEN [acc1 EXCEPT !.g = Raise(g, "AttributeError")]
                          ELSE [acc1 EXCEPT !.g.op_objs[producer_op].output = 0]
                     ELSE [acc1 EXCEPT
                              !.remove_products = @ \o unpack_consumers_product,
                              !.g = RebindUnpackProducts(g, producer_op, unpack_op,
                                                         unpack_consumers_product, 1)]
         IN  IF KeyIndex(g, pack_consumer) = 0 THEN [acc EXCEPT !.g = Raise(g, "KeyError")]
             ELSE IF Len(unpack_ops) # 1 \/ g.op_objs[unpack_op].type # "TupleUnpack"
             THEN [acc EXCEPT !.g = Raise(g, "AssertionError")]
             ELSE IF KeyIndex(g, pack_producer) = 0
             THEN [acc EXCEPT !.g = Raise(g, "KeyError")]
             ELSE RebindTupleElements(acc2, pack_producers, pack_consumers, i + 1)

\* the loop over self.ordered_ops, from the i-th op on
RECURSIVE CollectTupleOps(_, _, _)
CollectTupleOps(acc, ordered, i) ==
    IF i > Len(ordered) \/ acc.g.exception # "" THEN acc
    ELSE LET g == acc.g
             op == ordered[i]
             inputs == g.op_objs[op].inputs
             pack_producers == [k \in 1..Len(inputs) |-> g.product_objs[inputs[k]].name]
             pack_consumers == SortByLastNumber(KeysProducedBy(g, op))
             acc1 == [acc EXCEPT !.remove_ops = Append(@, op)]
             acc2 == IF pack_consumers = <<>>
                     THEN [acc1 EXCEPT !.remove_products = @ \o pack_producers]
                     ELSE IF Len(pack_consumers) # Len(pack_producers)
                     THEN [acc1 EXCEPT !.g = Raise(g, "AssertionError")]
                     ELSE RebindTupleElements(acc1, pack_producers, pack_consumers, 1)
         IN  IF g.op_objs[op].type # "TupleConstruct" THEN CollectTupleOps(acc, ordered, i + 1)
             ELSE CollectTupleOps(acc2, ordered, i + 1)

\* for k in remove_products: self._products.pop(k)
RECURSIVE PopProducts(_, _)
PopProducts(g, names) ==
    IF names = <<>> \/ g.exception # "" THEN g
    ELSE PopProducts(PopProduct(g, Head(names)), Tail(names))

IndexOf(seq, x) ==
    IF \E i \in 1..Len(seq) : seq[i] = x
    THEN CHOOSE i \in 1..Len(seq) : seq[i] = x /\ \A j \in 1..(i - 1) : seq[j] # x
    ELSE 0

\* for op in remove_ops: self.ordered_ops.remove(op); self._ops.pop(op.name)
RECURSIVE RemoveOps(_, _)
RemoveOps(g, remove_ops) ==
    IF remove_ops = <<>> \/ g.exception # "" THEN g
    ELSE LET op == Head(remove_ops)
         IN  IF IndexOf(g.ordered_ops, op) = 0 THEN Raise(g, "ValueError")
             ELSE IF IndexOf(g._ops, op) = 0 THEN Raise(g, "KeyError")
             ELSE RemoveOps([g EXCEPT !.ordered_ops = RemoveAt(@, IndexOf(@, op)),
                                      !._ops = RemoveAt(@, IndexOf(@, op))],
                            Tail(remove_ops))

\* _remove_tuple_ops()
_remove_tuple_ops(g) ==
    LET acc == CollectTupleOps([g |-> g, remove_ops |-> <<>>, remove_products |-> <<>>],
                               g.ordered_ops, 1)
    IN  RemoveOps(PopProducts(acc.g, acc.remove_products), acc.remove_ops)

\* ---- _fill_op_params

\* _create_and_add_param_product_if_not_exists(op, product_name, shape), the shape a new
\* list
_create_and_add_param_product_if_not_exists(g, op, product_name, shape) ==
    LET g1 == NewShape(g, shape)
        product == Len(g1.product_objs) + 1
        param == [Product(product_name, Len(g1.shape_objs)) EXCEPT
                      !.is_parm = TRUE, !.consumers = <<op>>]
    IN  IF KeyIndex(g1, product_name) # 0 THEN g1
        ELSE [g1 EXCEPT !.product_objs = Append(@, param),
                        !.op_objs[op].inputs = Append(@, product),
                        !._products = Append(@, product)]

\* the parameters of module n of the trace: a convolution has a weight and a bias
ModuleParams(tr, op_type, module) ==
    LET tensors == module_tensor_tuples_map(tr, module)
    IN  IF op_type = "convolution"
        THEN << [name |-> ".weight",
                 shape |-> <<tensors.output_shape[2], tensors.input_shape[2]>>],
                [name |-> ".bias", shape |-> <<tensors.output_shape[2]>>] >>
        ELSE <<>>

RECURSIVE AddParams(_, _, _, _)
AddParams(g, op, module, params) ==
    IF params = <<>> THEN g
    ELSE AddParams(_create_and_add_param_product_if_not_exists(
                       g, op, ProductName(ModuleName(module), Head(params).name, NoName),
                       Head(params).shape),
                   op, module, Tail(params))

\* the loop of _fill_op_params over self._ops.values(), from the i-th op on
RECURSIVE FillOpParamsFrom(_, _, _)
FillOpParamsFrom(g, tr, i) ==
    IF i > Len(g._ops) \/ g.exception # "" THEN g
    ELSE LET op == g._ops[i]
             module == g.op_objs[op].model_module
             g1 == IF g.op_objs[op].type \notin {"convolution", "batch_norm", "addmm", "matmul"}
                   THEN g
                   ELSE IF module = 0 THEN Raise(g, "AttributeError")      \* None.weight
                   ELSE AddParams(g, op, module, ModuleParams(tr, g.op_objs[op].type, module))
         IN  FillOpParamsFrom(g1, tr, i + 1)

_fill_op_params(g, tr) == FillOpParamsFrom(g, tr, 1)

\* ---- the insertion of Split ops

\* get_product_names_from_dotted_name(dotted_name)
get_product_names_from_dotted_name(g, dotted_name) ==
    LET matched == SelectSeq(g._products,
                             LAMBDA p : /\ g.product_objs[p].producer # 0
                                        /\ g.op_objs[g.product_objs[p].producer].dotted_name
                                               = dotted_name)
    IN  [i \in 1..Len(matched) |-> g.product_objs[matched[i]].name]

\* _create_split_op(op); the new op is the last of op_objs
_create_split_op(g, op) ==
    LET split_name == OpName("Split", g._split_count)
        split_dotted_name == [type |-> "Model.Split", count |-> g._split_count]
        split_op == Op(split_name, split_dotted_name, g.op_objs[op].output_shape, "Split")
    IN  [g EXCEPT !._split_count = @ + 1,
                  !.op_objs = Append(@, split_op),
                  !._ops = Append(@, Len(g.op_objs) + 1)]

\* _add_product(name, shape); the new product is the last of product_objs
_add_product(g, name, shape) ==
    IF KeyIndex(g, name) # 0 THEN Raise(g, "AssertionError")
    ELSE [g EXCEPT !.product_objs = Append(@, Product(name, shape)),
                   !._products = Append(@, Len(g.product_objs) + 1)]

\* _create_split_op_output_product(preceding_op, split_op)
_create_split_op_output_product(g, preceding_op, split_op) ==
    LET split_op_product_name == ProductName(g.op_objs[split_op].name, "__to__", MultipleOps)
        output == g.op_objs[preceding_op].output
        split_op_product == Len(g.product_objs) + 1
        g1 == _add_product(g, split_op_product_name, g.product_objs[output].shape)
    IN  IF output = 0 THEN Raise(g, "AttributeError")                  \* None.shape
        ELSE IF g1.exception # "" THEN g1
        ELSE [g1 EXCEPT !.product_objs[split_op_product].producer = split_op]

\* determine_preceding_op_input_product_index_in_multi_input_op(preceding_op,
\* multi_input_op): the first input whose producer is preceding_op, -1 if there is none
determine_preceding_op_input_product_index_in_multi_input_op(g, preceding_op, multi_input_op) ==
    LET inputs == g.op_objs[multi_input_op].inputs
        from_preceding(k) == g.product_objs[inputs[k]].producer = preceding_op
    IN  IF \E k \in 1..Len(inputs) : from_preceding(k)
        THEN (CHOOSE k \in 1..Len(inputs) :
                  from_preceding(k) /\ \A j \in 1..(k - 1) : ~from_preceding(j)) - 1
        ELSE -1

\* the body of the loop of _add_consumers_to_split_op_product after the consumer was
\* appended: the input of a_consumer that is rewritten to the split op's product
rewrite_consumer_input(g, preceding_op, a_consumer, split_op_product) ==
    LET input_product_index ==
            determine_preceding_op_input_product_index_in_multi_input_op(
                g, preceding_op, a_consumer)
    IN  IF g.op_objs[a_consumer].type \in {"cat", "add"}
        THEN IF input_product_index = -1 THEN Raise(g, "AssertionError")
             ELSE [g EXCEPT !.op_objs[a_consumer].inputs[input_product_index + 1]
                                = split_op_product]
        ELSE IF g.op_objs[a_consumer].inputs = <<>> THEN Raise(g, "IndexError")
        ELSE [g EXCEPT !.op_objs[a_consumer].inputs[1] = split_op_product]

\* the loop of _add_consumers_to_split_op_product, from the i-th product name on
RECURSIVE AddConsumers(_, _, _, _, _)
AddConsumers(g, preceding_op, split_op_product, out_product_names, i) ==
    IF i > Len(out_product_names) \/ g.exception # "" THEN g
    ELSE LET a_product == get_product(g, out_product_names[i])
             a_consumer == g.product_objs[a_product].consumers[1]
             g1 == [g EXCEPT !.product_objs[split_op_product].consumers =
                                 Append(@, a_consumer)]
             g2 == rewrite_consumer_input(g1, preceding_op, a_consumer, split_op_product)
         IN  IF g.product_objs[a_product].consumers = <<>> THEN Raise(g, "IndexError")
             ELSE AddConsumers(g2, preceding_op, split_op_product, out_product_names, i + 1)

\* the product names among `names` that contain the name of op
NamesContaining(g, names, op) ==
    SelectSeq(names, LAMBDA name : contains(ProductNameChars(name),
                                            OpNameChars(g.op_objs[op].name)))

\* _add_consumers_to_split_op_product(preceding_op, split_op_product)
_add_consumers_to_split_op_product(g, preceding_op, split_op_product) ==
    LET output_product_names ==
            get_product_names_from_dotted_name(g, g.op_objs[preceding_op].dotted_name)
        out_product_names == NamesContaining(g, output_product_names, preceding_op)
    IN  AddConsumers(g, preceding_op, split_op_product, out_product_names, 1)

\* _insert_split_op_in_connected_graph(preceding_op, split_op)
_insert_split_op_in_connected_graph(g, preceding_op, split_op) ==
    LET split_op_product == Len(g.product_objs) + 1
        g1 == _create_split_op_output_product(g, preceding_op, split_op)
        g2 == [g1 EXCEPT !.op_objs[split_op].output = split_op_product]
        g3 == _add_consumers_to_split_op_product(g2, preceding_op, split_op_product)
        preceding_op_product_names ==
            get_product_names_from_dotted_name(g3, g3.op_objs[preceding_op].dotted_name)
        g4 == PopProducts(g3, NamesContaining(g3, preceding_op_product_names, preceding_op))
        new_product_name == ProductName(g4.op_objs[preceding_op].name, "__to__",
                                        g4.op_objs[split_op].name)
        new_product_shape == g4.product_objs[g4.op_objs[preceding_op].output].shape
        new_product == Len(g4.product_objs) + 1
        g5 == _add_product(g4, new_product_name, new_product_shape)
        g6 == [g5 EXCEPT !.product_objs[new_product].producer = preceding_op,
                         !.product_objs[new_product].consumers = <<split_op>>,
                         !.op_objs[preceding_op].output = new_product]
    IN  IF g1.exception # "" THEN g1
        ELSE IF g3.exception # "" THEN g3
        ELSE IF g5.exception # "" THEN g5
        ELSE [g6 EXCEPT !.op_objs[split_op].inputs = Append(@, new_product)]

\* _determine_split_behavior_for_op_and_insert_split_op_in_connected_graph(op)
_determine_split_behavior_for_op_and_insert_split_op_in_connected_graph(g, op) ==
    LET name == OpNameChars(g.op_objs[op].name)
        output_product_names ==
            get_product_names_from_dotted_name(g, g.op_objs[op].dotted_name)
        name_list == [i \in 1..Len(output_product_names) |->
                         LET prod_name == ProductNameChars(output_product_names[i])
                             to_pos == find(prod_name, <<"t", "o">>)
                         IN  slice_to(prod_name, to_pos)]
        with_name == SelectSeq(name_list, LAMBDA prod : contains(prod, name))
        split_op == Len(g.op_objs) + 1
    IN  IF Len(output_product_names) > 1 /\ Len(with_name) > 1
        THEN _insert_split_op_in_connected_graph(_create_split_op(g, op), op, split_op)
        ELSE g

\* ---- _fill_empty_shapes

\* the loop over the consumers of the model input products
RECURSIVE AppendNew(_, _)
AppendNew(list, items) ==
    IF items = <<>> THEN list
    ELSE AppendNew(IF \E i \in 1..Len(list) : list[i] = Head(items) THEN list
                   ELSE Append(list, Head(items)),
                   Tail(items))

RECURSIVE StartingOps(_, _, _)
StartingOps(g, i, starting_ops) ==
    IF i > Len(g._products) THEN starting_ops
    ELSE LET product == g.product_objs[g._products[i]]
         IN  StartingOps(g, i + 1,
                         IF product.is_model_input THEN AppendNew(starting_ops, product.consumers)
                         ELSE starting_ops)

\* get_ordered_ops(starting_ops): a depth-first walk along op.output.consumers that lists
\* each op after all the ops it feeds, reversed
RECURSIVE VisitOp(_, _, _)
RECURSIVE VisitOps(_, _, _)
VisitOp(g, op, acc) ==
    LET output == g.op_objs[op].output
        consumers == IF output = 0 THEN <<>> ELSE g.product_objs[output].consumers
        after == VisitOps(g, consumers, [acc EXCEPT !.visited = @ \cup {op}])
    IN  [after EXCEPT !.ordered = Append(@, op)]

VisitOps(g, list, acc) ==
    IF list = <<>> THEN acc
    ELSE VisitOps(g, Tail(list),
                  IF Head(list) \in acc.visited THEN acc ELSE VisitOp(g, Head(list), acc))

Reverse(seq) == [i \in 1..Len(seq) |-> seq[Len(seq) + 1 - i]]

get_ordered_ops(g, starting_ops) ==
    Reverse(VisitOps(g, starting_ops, [visited |-> {}, ordered |-> <<>>]).ordered)

\* sum of inp.shape[1] over the inputs
RECURSIVE NumChannels(_, _)
NumChannels(g, inputs) ==
    IF inputs = <<>> THEN 0
    ELSE g.shape_objs[g.product_objs[Head(inputs)].shape][2] + NumChannels(g, Tail(inputs))

\* the body of the loop of _fill_empty_shapes for one op
FillEmptyShape(g, op) ==
    LET inputs == g.op_objs[op].inputs
        output == g.op_objs[op].output
        first_shape == g.product_objs[inputs[1]].shape
        \* concat_shape = op.inputs[0].shape; concat_shape[1] = num_channels: the list
        \* of the first input is written in place
        g_cat == [g EXCEPT !.shape_objs[first_shape][2] = NumChannels(g, inputs)]
        g1 == [(IF g.op_objs[op].type = "cat" THEN g_cat ELSE g) EXCEPT
                   !.op_objs[op].output_shape = first_shape]
    IN  IF \E k \in 1..Len(inputs) : g.product_objs[inputs[k]].shape = 0
        THEN Raise(g, "AssertionError")
        ELSE IF g.op_objs[op].output_shape # 0 THEN g
        ELSE IF output # 0 /\ g.product_objs[output].shape # 0
        THEN [g EXCEPT !.op_objs[op].output_shape = g.product_objs[output].shape]
        ELSE IF inputs = <<>> THEN Raise(g, "IndexError")
        ELSE IF output # 0 THEN [g1 EXCEPT !.product_objs[output].shape = first_shape]
        ELSE g1

RECURSIVE FillEmptyShapesFrom(_, _, _)
FillEmptyShapesFrom(g, ops_in_order, i) ==
    IF i > Len(ops_in_order) \/ g.exception # "" THEN g
    ELSE FillEmptyShapesFrom(FillEmptyShape(g, ops_in_order[i]), ops_in_order, i + 1)

\* _fill_empty_shapes()
_fill_empty_shapes(g) ==
    FillEmptyShapesFrom(g, get_ordered_ops(g, StartingOps(g, 1, <<>>)), 1)

\* ---- the traced models

\* the forward of leaf module number `module`; a convolution has 2 output channels
Conv(module, input) ==
    [kind |-> "CallMethod", type |-> "convolution", module |-> module, inputs |-> <<input>>,
     outputs |-> 1, tensor_output |-> TRUE, channels |-> 2]

Relu(module, input) ==
    [kind |-> "CallMethod", type |-> "relu", module |-> module, inputs |-> <<input>>,
     outputs |-> 1, tensor_output |-> TRUE, channels |-> 0]

Functional(type, inputs) ==
    [kind |-> "functional", type |-> type, module |-> 0, inputs |-> inputs,
     outputs |-> 1, tensor_output |-> TRUE, channels |-> 0]

TupleUnpack(input, outputs) ==
    [kind |-> "TupleUnpack", type |-> "TupleUnpack", module |-> 0, inputs |-> <<input>>,
     outputs |-> outputs, tensor_output |-> TRUE, channels |-> 0]

\* the nodes that can come n-th in a model of single-output tensor operations: a module
\* of its own, or an elementwise operation on two different earlier values
NodeChoices(n) ==
    {Conv(n, a) : a \in 0..(n - 1)} \cup {Relu(n, a) : a \in 0..(n - 1)}
    \cup {Functional(type, inputs) :
              type \in {"add", "mul"},
              inputs \in {pair \in (0..(n - 1)) \X (0..(n - 1)) : pair[1] # pair[2]}}

RECURSIVE Bodies(_)
Bodies(n) ==
    IF n = 0 THEN {<<>>}
    ELSE {Append(body, node) : body \in Bodies(n - 1), node \in NodeChoices(n)}

IsUsed(tr, value) == \E i \in 1..Len(tr) : \E k \in 1..Len(tr[i].inputs) : tr[i].inputs[k] = value

\* the models of n operations that return the last value, or a tuple of an earlier or
\* the same value and the last value; every other value is used
ModelsOfSize(n) ==
    {tr \in Bodies(n) \cup {Append(body, Functional("TupleConstruct", <<a, n>>)) :
                                body \in Bodies(n), a \in 0..n} :
        \A value \in 1..(n - 1) : IsUsed(tr, value)}

\* a residual block: conv -> relu, relu feeding the next conv and the add
ResidualBlock == <<Conv(1, 0), Relu(2, 1), Conv(3, 2), Functional("add", <<3, 2>>)>>

\* ResNet's BasicBlock: the same relu module is called twice
BasicBlock ==
    <<Conv(1, 0), Relu(2, 1), Conv(3, 2), Relu(2, 3), Conv(4, 4),
      Functional("add", <<5, 4>>)>>

\* a chain of twelve modules in which the same relu module is called second and
\* eleventh, so that its ops are named relu_1 and relu_10
RepeatedReluModel ==
    <<Conv(1, 0), Relu(2, 1), Conv(3, 2), Conv(4, 3), Conv(5, 4), Conv(6, 5), Conv(7, 6),
      Conv(8, 7), Conv(9, 8), Conv(10, 9), Relu(2, 10), Conv(11, 11)>>

\* a submodule returns a tuple that is unpacked; both elements, or only the first, are
\* used afterwards
TupleModel ==
    <<Conv(1, 0), Relu(2, 1), Functional("TupleConstruct", <<1, 2>>), TupleUnpack(3, 2),
      Functional("add", <<4, 5>>)>>

TupleModelOneUsed ==
    <<Conv(1, 0), Relu(2, 1), Functional("TupleConstruct", <<1, 2>>), TupleUnpack(3, 2),
      Relu(3, 4)>>

ConcatModel == <<Conv(1, 0), Conv(2, 0), Functional("cat", <<1, 2>>)>>

\* x.view(x.size(0), -1): size does not return a tensor
ViewModel ==
    <<Conv(1, 0), [Functional("size", <<1>>) EXCEPT !.tensor_output = FALSE],
      Functional("view", <<1, 2>>)>>

\* torch.max(x, dim) returns two values
MultiOutputModel == <<Conv(1, 0), [Functional("max", <<1>>) EXCEPT !.outputs = 2]>>

\* a submodule returns the tuple (a, b) of the values of a convolution and a relu, in
\* either order; the caller unpacks it into the values 4 and 5 and uses them in one or two
\* operations, next to the values 1 and 2 themselves
UnpackedConsumers ==
    {Relu(3, 4), Relu(3, 5), Conv(3, 5), Functional("add", <<4, 5>>),
     Functional("add", <<5, 4>>), Functional("mul", <<4, 4>>), Functional("add", <<2, 4>>)}

SecondConsumers == {Relu(4, 4), Relu(4, 5), Functional("add", <<6, 5>>)}

UnpackedModels ==
    {<<Conv(1, 0), Relu(2, 1), Functional("TupleConstruct", pair), TupleUnpack(3, 2)>> \o rest :
        pair \in {<<1, 2>>, <<2, 1>>, <<1, 1>>},
        rest \in {<<first>> : first \in UnpackedConsumers}
                 \cup {<<first, second>> : first \in UnpackedConsumers,
                                           second \in SecondConsumers}}

Traces ==
    UNION {ModelsOfSize(n) : n \in 1..MaxNodes}
    \cup {ResidualBlock, BasicBlock, TupleModel, TupleModelOneUsed, ConcatModel, ViewModel,
          MultiOutputModel, RepeatedReluModel}
    \cup UnpackedModels

\* ---- the construction, step by step
InputProductName == ProductName([type |-> "input", count |-> 1], "", NoName)

SetGraph(g) ==
    /\ ops' = g.ops /\ op_objs' = g.op_objs /\ product_objs' = g.product_objs
    /\ shape_objs' = g.shape_objs /\ _ops' = g._ops /\ ordered_ops' = g.ordered_ops
    /\ _products' = g._products /\ _op_count' = g._op_count
    /\ _split_count' = g._split_count /\ exception' = g.exception
    /\ shape_log' = g.shape_log

\* _construct_graph has traced the model and _parse_trace_graph has created the input
\* products
InitGraph ==
    /\ OutsideGraphIdle
    /\ trace \in Traces
    /\ graph_pc = "parse_trace_graph"
    /\ node_index = 0
    /\ shape_objs = <<InputShape>>
    /\ product_objs = <<[Product(InputProductName, 1) EXCEPT !.is_model_input = TRUE]>>
    /\ _products = <<1>>
    /\ ops = <<[kind |-> "Product", id |-> 1]>>
    /\ op_objs = <<>> /\ _ops = <<>> /\ ordered_ops = <<>>
    /\ _op_count = 0 /\ _split_count = 0
    /\ ops_list = <<>>
    /\ exception = ""
    /\ shape_log = <<>>
    /\ shape_call = NoShapeCall

\* one iteration of the loop of _parse_trace_graph
ParseTraceGraph ==
    /\ graph_pc = "parse_trace_graph"
    /\ LET g == ParseNode(Graph, trace, node_index + 1)
       IN  /\ SetGraph(g)
           /\ graph_pc' = IF g.exception # "" THEN "raised"
                          ELSE IF node_index + 1 = Len(trace) THEN "remove_tuple_ops"
                          ELSE "parse_trace_graph"
    /\ node_index' = node_index + 1
    /\ UNCHANGED <<trace, ops_list, shape_call>>
    /\ UNCHANGED outside_graph

\* self._remove_tuple_ops()
RemoveTupleOps ==
    /\ graph_pc = "remove_tuple_ops"
    /\ LET g == _remove_tuple_ops(Graph)
       IN  /\ SetGraph(g)
           /\ graph_pc' = IF g.exception # "" THEN "raised" ELSE "fill_op_params"
    /\ UNCHANGED <<trace, node_index, ops_list, shape_call>>
    /\ UNCHANGED outside_graph

\* self._fill_op_params(); ops_list = [op for op in self._ops.values()]
FillOpParams ==
    /\ graph_pc = "fill_op_params"
    /\ LET g == _fill_op_params(Graph, trace)
       IN  /\ SetGraph(g)
           /\ ops_list' = g._ops
           /\ graph_pc' = IF g.exception # "" THEN "raised"
                          ELSE IF g._ops = <<>> THEN "fill_empty_shapes"
                          ELSE "determine_split_behavior"
    /\ UNCHANGED <<trace, node_index, shape_call>>
    /\ UNCHANGED outside_graph

\* one iteration of the loop of _construct_graph over ops_list
DetermineSplitBehavior ==
    /\ graph_pc = "determine_split_behavior"
    /\ LET g == _determine_split_behavior_for_op_and_insert_split_op_in_connected_graph(
                    Graph, Head(ops_list))
       IN  /\ SetGraph(g)
           /\ graph_pc' = IF g.exception # "" THEN "raised"
                          ELSE IF Tail(ops_list) = <<>> THEN "fill_empty_shapes"
                          ELSE "determine_split_behavior"
    /\ ops_list' = Tail(ops_list)
    /\ UNCHANGED <<trace, node_index, shape_call>>
    /\ UNCHANGED outside_graph

\* self._fill_empty_shapes(); the construction is complete
FillEmptyShapes ==
    /\ graph_pc = "fill_empty_shapes"
    /\ LET g == _fill_empty_shapes(Graph)
       IN  /\ SetGraph(g)
           /\ graph_pc' = IF g.exception # "" THEN "raised" ELSE "constructed"
    /\ UNCHANGED <<trace, node_index, ops_list, shape_call>>
    /\ UNCHANGED outside_graph

NextGraph ==
    \/ ParseTraceGraph
    \/ RemoveTupleOps
    \/ FillOpParams
    \/ DetermineSplitBehavior
    \/ FillEmptyShapes

SpecGraph == InitGraph /\ [][NextGraph]_vars

\* ---- claims about the connected graph

\* the products of the graph's product collection
GraphProducts == {_products[i] : i \in 1..Len(_products)}

\* the ops of the graph's op collection
GraphOps == {_ops[i] : i \in 1..Len(_ops)}

\* the trace has no tuple: every node defines one value, node n the value n, and the op
\* made for it is the one the value resolves to
TupleFree == \A n \in 1..Len(trace) : trace[n].type \notin {"TupleConstruct", "TupleUnpack"}

NodeOp(n) == ops[n + 1].id

\* the nodes that consume the value of node n
ConsumerNodes(n) ==
    {c \in 1..Len(trace) : \E k \in 1..Len(trace[c].inputs) : trace[c].inputs[k] = n}

\* the Split ops of the graph fed by a product of op
SplitsBelow(op) ==
    {split \in GraphOps :
        /\ op_objs[split].type = "Split"
        /\ \E k \in 1..Len(op_objs[split].inputs) :
               product_objs[op_objs[split].inputs[k]].producer = op}

ProductsOf(op) == {p \in GraphProducts : product_objs[p].producer = op}

\* exactly one Split op sits between the op of node n and its consumers
OneSplitBelow(n) ==
    /\ Cardinality(SplitsBelow(NodeOp(n))) = 1
    /\ LET split == CHOOSE sp \in SplitsBelow(NodeOp(n)) : TRUE
           to_split == op_objs[NodeOp(n)].output
           from_split == op_objs[split].output
       IN  /\ ProductsOf(NodeOp(n)) = {to_split}
           /\ product_objs[to_split].consumers = <<split>>
           /\ op_objs[split].inputs = <<to_split>>
           /\ ProductsOf(split) = {from_split}
           /\ {product_objs[from_split].consumers[k] :
                   k \in 1..Len(product_objs[from_split].consumers)}
                  = {NodeOp(c) : c \in ConsumerNodes(n)}

\* input slot k of the op of node c holds what the trace says: the model input, the
\* output product of the Split below the source when the source has several consumers,
\* and otherwise the product of the source
SlotHoldsSource(c, k) ==
    LET source == trace[c].inputs[k]
        held == op_objs[NodeOp(c)].inputs[k]
    IN  /\ held \in GraphProducts
        /\ IF source = 0 THEN product_objs[held].is_model_input
           ELSE IF Cardinality(ConsumerNodes(source)) >= 2
           THEN /\ product_objs[held].producer \in SplitsBelow(NodeOp(source))
                /\ held = op_objs[product_objs[held].producer].output
           ELSE product_objs[held].producer = NodeOp(source)

\* C1: after construction, every op whose output is consumed by two or more distinct ops
\* has exactly one Split op below it, with a single product from the op to the Split and
\* a single product from the Split to exactly those consumers, and every input slot of
\* every consumer holds the product of the value the trace puts there: the Split's
\* product where the op's tensor was, the original product elsewhere.
C1_SplitInsertion ==
    (graph_pc = "constructed" /\ TupleFree) =>
        /\ \A n \in 1..Len(trace) :
               Cardinality(ConsumerNodes(n)) >= 2 => OneSplitBelow(n)
        /\ \A c \in 1..Len(trace) : \A k \in 1..Len(trace[c].inputs) : SlotHoldsSource(c, k)

\* C26: after construction, a Split op sits below an op exactly when the value of that op
\* is read by two or more distinct operations: none below an op with a single consumer,
\* also when another op made from the same module has a name of which this op's name is
\* a prefix (relu_1 and relu_10), and one below every op with two or more consumers.
C26_SplitIffSeveralConsumers ==
    (graph_pc = "constructed" /\ TupleFree) =>
        \A n \in 1..Len(trace) :
            (SplitsBelow(NodeOp(n)) # {}) <=> (Cardinality(ConsumerNodes(n)) >= 2)

\* C29: after construction, the output of every op of the op collection is None or a
\* product of the product collection whose producer is that op, also for a model that
\* returns a tuple and for a tuple in which one op supplies several elements.
C29_OutputIsOwnProductOfCollection ==
    graph_pc = "constructed" =>
        \A o \in GraphOps :
            \/ op_objs[o].output = 0
            \/ /\ op_objs[o].output \in GraphProducts
               /\ product_objs[op_objs[o].output].producer = o

\* ---- _fill_empty_shapes on its own: two convolutions feed an anonymous op (cat or
\* add) that was created without an output shape ("Anonymous ops like add or concat do
\* not have shapes associated with them when their ops are created"); the op is the last
\* of the model or feeds a relu module

\* the channel counts of the convolutions and the batch sizes
ChannelCounts == {1, 2, 3}

BatchSizes == {1, 2}

\* ops 1 and 2 are the convolutions, op 3 is the anonymous op, op 4 the relu; product 1
\* is the model input, 2 and 3 go from the convolutions to op 3, 4 from op 3 to the relu
AnonymousGraphOps(type, has_output) ==
    << [Op(OpName("convolution", 0), ModuleName(1), 2, "convolution") EXCEPT
            !.inputs = <<1>>, !.output = 2, !.model_module = 1],
       [Op(OpName("convolution", 1), ModuleName(2), 3, "convolution") EXCEPT
            !.inputs = <<1>>, !.output = 3, !.model_module = 2],
       [Op(OpName(type, 2), OpName(type, 2), 0, type) EXCEPT
            !.inputs = <<2, 3>>, !.output = IF has_output THEN 4 ELSE 0] >>
    \o (IF has_output
        THEN << [Op(OpName("relu", 3), ModuleName(3), 5, "relu") EXCEPT
                     !.inputs = <<4>>, !.model_module = 3] >>
        ELSE <<>>)

AnonymousGraphProducts(type, has_output, output_has_shape) ==
    << [Product(InputProductName, 1) EXCEPT !.is_model_input = TRUE, !.consumers = <<1, 2>>],
       [Product(ProductName(OpName("convolution", 0), "_to_", OpName(type, 2)), 2) EXCEPT
            !.producer = 1, !.consumers = <<3>>],
       [Product(ProductName(OpName("convolution", 1), "_to_", OpName(type, 2)), 3) EXCEPT
            !.producer = 2, !.consumers = <<3>>] >>
    \o (IF has_output
        THEN << [Product(ProductName(OpName(type, 2), "_to_", OpName("relu", 3)),
                         IF output_has_shape THEN 4 ELSE 0) EXCEPT
                     !.producer = 3, !.consumers = <<4>>] >>
        ELSE <<>>)

InitFill ==
    /\ OutsideGraphIdle
    /\ graph_pc = "fill_empty_shapes"
    /\ trace = <<>> /\ node_index = 0 /\ ops = <<>> /\ ops_list = <<>>
    /\ \E n \in BatchSizes, first, second \in ChannelCounts :
           shape_objs = << <<n, 1>>, <<n, first>>, <<n, second>>, <<n, first + second>>,
                           <<n, first + second>> >>
    /\ \E type \in {"cat", "add"}, has_output, output_has_shape \in BOOLEAN :
           /\ op_objs = AnonymousGraphOps(type, has_output)
           /\ product_objs = AnonymousGraphProducts(type, has_output, output_has_shape)
    /\ _products = [i \in 1..Len(product_objs) |-> i]
    /\ _ops = [i \in 1..Len(op_objs) |-> i]
    /\ ordered_ops = _ops
    /\ _op_count = Len(op_objs) /\ _split_count = 0
    /\ exception = ""
    /\ shape_log = <<>>
    /\ shape_call = NoShapeCall

NextFill == FillEmptyShapes

SpecFill == InitFill /\ [][NextFill]_vars

\* the sum of the channel counts recorded on the inputs of op
RECURSIVE ChannelsOf(_)
ChannelsOf(inputs) ==
    IF inputs = <<>> THEN 0
    ELSE shape_objs[product_objs[Head(inputs)].shape][2] + ChannelsOf(Tail(inputs))

\* the ops without an output shape, and without a shape on their output product, whose
\* inputs all have a shape
OpsToFill ==
    {o \in GraphOps :
        /\ op_objs[o].output_shape = 0
        /\ op_objs[o].output # 0 => product_objs[op_objs[o].output].shape = 0
        /\ op_objs[o].inputs # <<>>
        /\ \A k \in 1..Len(op_objs[o].inputs) : product_objs[op_objs[o].inputs[k]].shape # 0}

C2_ProducerOutputIsTheProduct ==
    graph_pc = "constructed" =>
        /\ \A p \in GraphProducts :
               product_objs[p].producer # 0 =>
                   op_objs[product_objs[p].producer].output = p
        /\ \A p, q \in GraphProducts :
               (p # q /\ product_objs[p].producer # 0) =>
                   product_objs[p].producer # product_objs[q].producer


\* ---- the tuples of a trace

\* the node that defines value v, and the op made for value v
NodeOfValue(v) ==
    CHOOSE n \in 1..Len(trace) :
        FirstValue(trace, n) <= v /\ v < Len(TraceValues(trace, n))

OpOfValue(v) == ops[v + 1].id

\* the ops made for TupleConstruct nodes and for the TupleUnpack nodes they feed
ConstructOps == {o \in 1..Len(op_objs) : op_objs[o].type = "TupleConstruct"}

UnpackOps ==
    {o \in 1..Len(op_objs) :
        /\ op_objs[o].type = "TupleUnpack"
        /\ \E k \in 1..Len(op_objs[o].inputs) :
               product_objs[op_objs[o].inputs[k]].producer \in ConstructOps}

\* the i-th value that TupleUnpack node u defines, and the value the TupleConstruct node
\* that feeds u received as its i-th element
UnpackedValue(u, i) == FirstValue(trace, u) + i - 1

SuppliedValue(u, i) == trace[NodeOfValue(trace[u].inputs[1])].inputs[i]

\* the input slots <<node, slot>> of the operations that read value v
SlotsReading(v) ==
    {slot \in (1..Len(trace)) \X (1..2) :
        /\ trace[slot[1]].type \notin {"TupleConstruct", "TupleUnpack"}
        /\ slot[2] <= Len(trace[slot[1]].inputs)
        /\ trace[slot[1]].inputs[slot[2]] = v}

\* C22: after _remove_tuple_ops no TupleConstruct op and no TupleUnpack op fed by one is
\* in the op collection or in ordered_ops, and no product of the product collection has
\* one of them as producer or consumer; the op that supplied the i-th element of a tuple
\* is linked by a product named supplier_to_consumer to every
\* operation that reads the i-th unpacked value, in the input slot where that value was
\* read; and a supplier whose unpacked element nobody reads has output None.
C22_TupleOpsRemoved ==
    graph_pc = "fill_op_params" =>
        /\ \A o \in ConstructOps \cup UnpackOps :
               /\ o \notin GraphOps
               /\ \A k \in 1..Len(ordered_ops) : ordered_ops[k] # o
        /\ \A p \in GraphProducts :
               /\ product_objs[p].producer \notin ConstructOps \cup UnpackOps
               /\ \A k \in 1..Len(product_objs[p].consumers) :
                      product_objs[p].consumers[k] \notin ConstructOps \cup UnpackOps
        /\ \A u \in 1..Len(trace) :
               trace[u].kind = "TupleUnpack" =>
                   \A i \in 1..trace[u].outputs :
                       LET supplier == OpOfValue(SuppliedValue(u, i))
                           readers == SlotsReading(UnpackedValue(u, i))
                       IN  /\ \A slot \in readers :
                                  LET consumer == OpOfValue(FirstValue(trace, slot[1]))
                                      held == op_objs[consumer].inputs[slot[2]]
                                  IN  /\ held # 0
                                      /\ product_objs[held].producer = supplier
                                      /\ product_objs[held].name =
                                             ProductName(op_objs[supplier].name, "_to_",
                                                         op_objs[consumer].name)
                                      /\ \E k \in 1..Len(product_objs[held].consumers) :
                                             product_objs[held].consumers[k] = consumer
                           /\ readers = {} => op_objs[supplier].output = 0

C22_Witness ==
    /\ graph_pc = "fill_op_params"
    /\ trace = TupleModel
    /\ Len(op_objs) = 6
    /\ op_objs[6].type = "add"
    /\ product_objs[op_objs[6].inputs[1]].producer = 1
    /\ product_objs[op_objs[6].inputs[2]].producer = 2
    /\ _ops = <<1, 2, 6>>

\* the node the loop of _parse_trace_graph handles next has several outputs, or none,
\* and is not a TupleUnpack node
NextNodeIsMultiOutput ==
    /\ graph_pc = "parse_trace_graph"
    /\ trace[node_index + 1].kind # "TupleUnpack"
    /\ trace[node_index + 1].outputs # 1

\* C17: while parsing a trace, a node other than a TupleUnpack node that does not have
\* exactly one output makes the construction fail with NotImplementedError at that node:
\* no Op, Product or shape is created or changed for it, no value is resolved for it,
\* and the construction takes no further step once it has raised.
C17_MultiOutputNodeRaises ==
    [][/\ NextNodeIsMultiOutput =>
              /\ exception' = "NotImplementedError" /\ graph_pc' = "raised"
              /\ node_index' = node_index + 1
              /\ UNCHANGED <<ops, op_objs, product_objs, shape_objs, _ops, ordered_ops,
                             _products, _op_count, _split_count>>
       /\ graph_pc # "raised"]_vars

C17_Witness ==
    /\ graph_pc = "raised" /\ exception = "NotImplementedError"
    /\ trace = MultiOutputModel /\ node_index = 2
    /\ Len(op_objs) = 1 /\ op_objs[1].type = "convolution" /\ Len(ops) = 2

\* ---- _fill_and_check_op_product_shapes on its own: an op with two input products and,
\* possibly, an output product, each with a recorded shape or none, and the shapes
\* observed in the forward pass

\* a shape list [N, C]; [] is the shape of a scalar
ShapeLists == {<<>>, <<1, 2>>, <<2, 2>>, <<1, 3>>}

\* the op under construction and its products: 1 and 2 come in, 3 goes out
FilledOp(has_output) ==
    [Op(OpName("add", 2), OpName("add", 2), 0, "add") EXCEPT
         !.inputs = <<1, 2>>, !.output = IF has_output THEN 3 ELSE 0]

\* product p with shape list number p as its recorded shape, or with None
RecordedProduct(p, has_shape) ==
    IF p = 3
    THEN [Product(ProductName(OpName("add", 2), "_to_", OpName("relu", 3)),
                  IF has_shape THEN p ELSE 0) EXCEPT !.producer = 1]
    ELSE [Product(ProductName(OpName("convolution", p - 1), "_to_", OpName("add", 2)),
                  IF has_shape THEN p ELSE 0) EXCEPT !.consumers = <<1>>]

\* the shape lists 1, 2, 3 are those the products may hold; 4 and 5 are the lists made
\* from the tensors of the forward pass.  The input shape a functional op is given is
\* that of its first input, which may be None
InitShapes ==
    /\ OutsideGraphIdle
    /\ graph_pc = "fill_and_check_op_product_shapes"
    /\ trace = <<>> /\ node_index = 0 /\ ops = <<>> /\ ops_list = <<>>
    /\ shape_objs \in ShapeLists \X ShapeLists \X ShapeLists \X ShapeLists \X ShapeLists
    /\ \E first, second, third, has_output \in BOOLEAN :
           /\ product_objs = <<RecordedProduct(1, first), RecordedProduct(2, second),
                               RecordedProduct(3, third)>>
           /\ op_objs = <<FilledOp(has_output)>>
    /\ _products = <<1, 2, 3>>
    /\ _ops = <<1>> /\ ordered_ops = <<1>>
    /\ _op_count = 3 /\ _split_count = 0
    /\ exception = ""
    /\ shape_log = <<>>
    /\ shape_call \in [op : {1}, input_shape : {0, 4}, output_shape : {5}]

\* the call _fill_and_check_op_product_shapes(op, input_shape, output_shape)
FillAndCheckOpProductShapes ==
    /\ graph_pc = "fill_and_check_op_product_shapes"
    /\ LET g == _fill_and_check_op_product_shapes(Graph, shape_call.op,
                                                   shape_call.input_shape,
                                                   shape_call.output_shape)
       IN  /\ SetGraph(g)
           /\ graph_pc' = IF g.exception # "" THEN "raised" ELSE "returned"
    /\ UNCHANGED <<trace, node_index, ops_list, shape_call>>
    /\ UNCHANGED outside_graph

NextShapes == FillAndCheckOpProductShapes

SpecShapes == InitShapes /\ [][NextShapes]_vars

\* the products the call looks at, and for each the shape the call was given for it
CheckedProducts ==
    {op_objs[shape_call.op].inputs[k] : k \in 1..Len(op_objs[shape_call.op].inputs)}
    \cup (IF op_objs[shape_call.op].output = 0 THEN {} ELSE {op_objs[shape_call.op].output})

Observed(p) ==
    IF p = op_objs[shape_call.op].output THEN shape_call.output_shape
    ELSE shape_call.input_shape

\* the product has a recorded shape: a list that is not empty
HasShape(p) == product_objs[p].shape # 0 /\ shape_objs[product_objs[p].shape] # <<>>

\* the recorded shape differs from the observed one in a dimension other than the first
DiffersBeyondFirst(p) ==
    /\ HasShape(p)
    /\ Rest(shape_objs[product_objs[p].shape]) # Rest(shape_objs[Observed(p)])

\* C18: a call of _fill_and_check_op_product_shapes with observed shapes returns normally.
\* A product whose recorded shape differs from the observed shape in a dimension other than
\* the first is logged and keeps its recorded shape; a product whose recorded shape
\* differs at most in the first dimension is not logged and keeps it too; a product that
\* had no shape holds the observed shape afterwards and is not logged.
C18_MismatchIsLoggedOnly ==
    [][(graph_pc = "fill_and_check_op_product_shapes" /\ shape_call.input_shape # 0) =>
           /\ graph_pc' = "returned" /\ exception' = ""
           /\ shape_objs' = shape_objs
           /\ \A p \in CheckedProducts :
                  /\ HasShape(p) => product_objs'[p].shape = product_objs[p].shape
                  /\ DiffersBeyondFirst(p)
                         <=> \E i \in 1..Len(shape_log') : shape_log'[i].product = p
                  /\ ~HasShape(p) => product_objs'[p].shape = Observed(p)]_vars

\* the first input had [1, 3] recorded and [1, 2] was observed: logged, kept; the second
\* had [2, 2]: a difference in the batch only, not logged; the output had none and holds
\* the observed output shape
C18_Witness ==
    /\ graph_pc = "returned"
    /\ shape_call.input_shape = 4 /\ shape_objs[4] = <<1, 2>>
    /\ product_objs[1].shape = 1 /\ shape_objs[1] = <<1, 3>>
    /\ product_objs[2].shape = 2 /\ shape_objs[2] = <<2, 2>>
    /\ op_objs[1].output = 3 /\ product_objs[3].shape = 5
    /\ shape_log = <<[level |-> "warning", product |-> 1]>>

\* ========================================================================
\* experimental/v2/nn/fake_quant.py: _QuantizationMixin
\* ========================================================================
\* The module has the parameters weight and bias, in the order of named_parameters(). A
\* tensor is a sequence of elements [nan, v], None is <<>>. The module's quantizers are
\* QuantizeDequantize quantizers of the bitwidth and symmetry held in bitwidth, _symmetric
\* and _signed; each is a record [initialized, min, max] with its own range.

ParamNames == <<"weight", "bias">>

Elem(v) == [nan |-> FALSE, v |-> v]
NaN == [nan |-> TRUE, v |-> 0]

\* the tensors given to the module as parameters and inputs
Tensors == {<<Elem(-1), Elem(2)>>, <<Elem(2), Elem(2)>>}

\* the positional inputs of a call: one tensor, or two different tensors
InputLists ==
    {<<t>> : t \in Tensors} \cup {<<<<Elem(-1), Elem(2)>>, <<Elem(2), Elem(2)>>>>}

NewQuantizer == [initialized |-> FALSE, min |-> -1, max |-> 1]

\* None in a list of quantizers
NoQuantizer == <<>>

\* the lengths of the lists assigned to input_quantizers and output_quantizers
QuantizerListLengths == {0, 1, 2}

\* the module as one value
Module ==
    [parameters |-> _parameters, param_quantizers |-> param_quantizers,
     input_quantizers |-> input_quantizers, output_quantizers |-> output_quantizers,
     seen |-> seen_parameters, returned |-> module_returned,
     stack |-> <<>>, raised |-> ""]

\* quantizer(input): QuantizeDequantize.forward on every element of the tensor; with
\* bitwidth 1 the quantization grid is integral
quantizer_call(q, input) ==
    IF ~q.initialized THEN [raised |-> "RuntimeError", tensor |-> <<>>]
    ELSE IF input = <<>> THEN [raised |-> "TypeError", tensor |-> <<>>]
    ELSE [raised |-> "",
          tensor |-> [i \in 1..Len(input) |->
                         LET r == forward(input[i].v, q.min, q.max, q.initialized)
                         IN  IF input[i].nan \/ r.kind # "output" THEN NaN
                             ELSE Elem(r.num \div r.den)]]

\* with param_quantizer.compute_encodings(): _ = param_quantizer(param)
compute_param_encoding(q, param) ==
    LET st    == update_stats(<<>>, <<param[1].v, param[2].v>>)
        range == compute_encodings_from_stats(st)
    IN  [initialized |-> TRUE, min |-> range[1], max |-> range[2]]

\* _compute_param_encodings(overwrite), from the i-th parameter on
RECURSIVE ComputeParamEncodingsFrom(_, _, _)
ComputeParamEncodingsFrom(m, overwrite, i) ==
    IF i > Len(ParamNames) THEN m
    ELSE LET param_name      == ParamNames[i]
             param_quantizer == m.param_quantizers[param_name]
             param           == m.parameters[param_name]
         IN  IF param_quantizer = <<>> THEN ComputeParamEncodingsFrom(m, overwrite, i + 1)
             ELSE IF (~param_quantizer[1].initialized \/ overwrite) /\ param # <<>>
             THEN ComputeParamEncodingsFrom(
                      [m EXCEPT !.param_quantizers[param_name] =
                                    <<compute_param_encoding(param_quantizer[1], param)>>],
                      overwrite, i + 1)
             ELSE ComputeParamEncodingsFrom(m, overwrite, i + 1)

_compute_param_encodings(m, overwrite) == ComputeParamEncodingsFrom(m, overwrite, 1)

\* patch_param(self, param_name, quantized_param) is entered: the parameter is
\* replaced and the context is pushed on the exit stack
patch_param(m, param_name, quantized_param) ==
    [m EXCEPT !.stack = Append(@, [name |-> param_name, orig |-> m.parameters[param_name]]),
              !.parameters[param_name] = quantized_param]

\* the contexts entered are closed in reverse order, each restoring its parameter
RECURSIVE CloseContexts(_)
CloseContexts(m) ==
    IF m.stack = <<>> THEN m
    ELSE LET ctx == m.stack[Len(m.stack)]
         IN  CloseContexts([m EXCEPT !.stack = SubSeq(@, 1, Len(@) - 1),
                                     !.parameters[ctx.name] = ctx.orig])

\* A slip: the contexts are closed on a normal exit only.
ExitStackClosedOnReturnOnly(m) == IF m.raised # "" THEN m ELSE CloseContexts(m)

\* with contextlib.ExitStack() as stack: the block is left, normally or by an exception
ExitStack(m) == CloseContexts(m)

\* _patch_quantized_parameters up to its yield, from the i-th parameter on
RECURSIVE PatchFrom(_, _)
PatchFrom(m, i) ==
    IF i > Len(ParamNames) THEN m
    ELSE LET param_name      == ParamNames[i]
             param_quantizer == m.param_quantizers[param_name]
         IN  IF param_quantizer = <<>> THEN PatchFrom(m, i + 1)
             ELSE LET orig_param      == m.parameters[param_name]
                      quantized_param == quantizer_call(param_quantizer[1], orig_param)
                  IN  IF quantized_param.raised # ""
                      THEN [m EXCEPT !.raised = quantized_param.raised]
                      ELSE PatchFrom(patch_param(m, param_name, quantized_param.tensor), i + 1)



\* the original forward of the module: input + weight + bias, elementwise
TensorSum(a, b) ==
    IF b = <<>> THEN a
    ELSE [i \in 1..Len(a) |-> IF a[i].nan \/ b[i].nan THEN NaN ELSE Elem(a[i].v + b[i].v)]

\* one output per input; a forward that returns one tensor is given as the tuple of it
\* (outputs = (outputs,) in quantized_forward)
_forward(inputs, parameters) ==
    [i \in 1..Len(inputs) |->
        TensorSum(TensorSum(inputs[i], parameters.weight), parameters.bias)]

\* _nested_map(x, fn) on one tensor: x when fn is None, else fn(x)
nested_map_of_tensor(nested_args, nested_fn) ==
    IF nested_fn = <<>> THEN [raised |-> "", tensor |-> nested_args]
    ELSE quantizer_call(nested_fn[1], nested_args)

\* zip(nested_args, nested_fn): as many pairs as the shorter of the two has elements
zip(nested_args, nested_fn) ==
    [i \in 1..(IF Len(nested_args) < Len(nested_fn) THEN Len(nested_args)
               ELSE Len(nested_fn)) |-> <<nested_args[i], nested_fn[i]>>]

\* the list comprehension of _nested_map over the pairs from the i-th on: the first
\* element that raises ends it
RECURSIVE NestedMapOver(_, _, _)
NestedMapOver(pairs, i, mapped) ==
    IF i > Len(pairs) THEN [raised |-> "", tensors |-> mapped]
    ELSE LET element == nested_map_of_tensor(pairs[i][1], pairs[i][2])
         IN  IF element.raised # "" THEN [raised |-> element.raised, tensors |-> <<>>]
             ELSE NestedMapOver(pairs, i + 1, Append(mapped, element.tensor))

\* _nested_map((x, ...), ModuleList([quantizer, ...])): the list of _nested_map(arg, fn)
\* over zip(nested_args, nested_fn), or the exception of the first element that raises
_nested_map(nested_args, nested_fn) == NestedMapOver(zip(nested_args, nested_fn), 1, <<>>)

Raised(m, e) ==
    [m EXCEPT !.raised = e,
              !.returned = [NoModuleReturn EXCEPT !.kind = e]]

\* quantized_forward(*inputs); forward_raises: the original forward raises. The
\* original forward has as many positional parameters as the module was called with
\* inputs, so a call of it with another number of arguments raises TypeError. The
\* outputs are given as a list also when there is one (which the code returns unwrapped).
quantized_forward(mod, inputs, forward_raises) ==
    LET encoded          == _compute_param_encodings(mod, FALSE)
        quantized_inputs == _nested_map(inputs, encoded.input_quantizers)
        patched          == PatchFrom(encoded, 1)
        running          == [patched EXCEPT !.seen = patched.parameters]
        outputs          == _forward(quantized_inputs.tensors, running.parameters)
        left             == ExitStack(running)
        quantized_outputs == _nested_map(outputs, left.output_quantizers)
        called           == [NoModuleReturn EXCEPT !.inputs = inputs,
                                                   !.forward_inputs = quantized_inputs.tensors]
    IN  IF quantized_inputs.raised # "" THEN Raised(encoded, quantized_inputs.raised)
        ELSE IF patched.raised # "" THEN ExitStack(Raised(patched, patched.raised))
        ELSE IF Len(quantized_inputs.tensors) # Len(inputs)
        THEN [ExitStack([patched EXCEPT !.raised = "TypeError"])
                 EXCEPT !.returned = [called EXCEPT !.kind = "TypeError"]]
        ELSE IF forward_raises
        THEN [ExitStack([running EXCEPT !.raised = "ForwardError"])
                 EXCEPT !.returned = [called EXCEPT !.kind = "ForwardError",
                                                    !.forward_ran = TRUE]]
        ELSE IF quantized_outputs.raised # ""
        THEN [left EXCEPT !.returned = [called EXCEPT !.kind = quantized_outputs.raised,
                                                      !.forward_ran = TRUE,
                                                      !.forward_outputs = outputs]]
        ELSE [left EXCEPT !.returned = [called EXCEPT !.kind = "output",
                                                      !.forward_ran = TRUE,
                                                      !.forward_outputs = outputs,
                                                      !.outputs = quantized_outputs.tensors]]

SetModule(m) ==
    /\ _parameters' = m.parameters
    /\ param_quantizers' = m.param_quantizers
    /\ input_quantizers' = m.input_quantizers
    /\ output_quantizers' = m.output_quantizers
    /\ seen_parameters' = m.seen
    /\ module_returned' = m.returned

\* __quant_init__: every quantizer is None
InitModule ==
    /\ WinnowIdle /\ AffineIdle /\ GraphIdle /\ RegistryIdle /\ LayerIdle
    /\ BnIdle /\ BuilderIdle /\ OnnxIdle
    /\ quantizer_class = "QuantizeDequantize"
    /\ bitwidth = 1 /\ _symmetric = FALSE /\ _signed = FALSE
    /\ min = 0 /\ max = 0 /\ params_written = FALSE /\ forward_patched = FALSE
    /\ stats = <<>> /\ returned = NoReturn
    /\ _parameters \in [weight : Tensors, bias : Tensors \cup {<<>>}]
    /\ param_quantizers = [weight |-> <<>>, bias |-> <<>>]
    /\ input_quantizers = <<NoQuantizer>> /\ output_quantizers = <<NoQuantizer>>
    /\ seen_parameters = NoParameters
    /\ module_returned = NoModuleReturn

\* module(*inputs)
QuantizedForward ==
    /\ \E inputs \in InputLists, forward_raises \in BOOLEAN :
           SetModule(quantized_forward(Module, inputs, forward_raises))
    /\ UNCHANGED outside_module

\* module.weight / module.bias is assigned a new tensor (a training step)
SetParameter ==
    /\ \E i \in 1..Len(ParamNames), t \in Tensors :
           _parameters' = [_parameters EXCEPT ![ParamNames[i]] = t]
    /\ module_returned' = NoModuleReturn /\ seen_parameters' = NoParameters
    /\ UNCHANGED <<param_quantizers, input_quantizers, output_quantizers>>
    /\ UNCHANGED outside_module

\* module.param_quantizers[name] = QuantizeDequantize(...) or None
SetParamQuantizer ==
    /\ \E i \in 1..Len(ParamNames), q \in {<<>>, <<NewQuantizer>>} :
           param_quantizers' = [param_quantizers EXCEPT ![ParamNames[i]] = q]
    /\ module_returned' = NoModuleReturn /\ seen_parameters' = NoParameters
    /\ UNCHANGED <<_parameters, input_quantizers, output_quantizers>>
    /\ UNCHANGED outside_module

\* module.input_quantizers[0] / module.output_quantizers[0] of a list of one quantizer
\* is assigned: None, a new quantizer or one with a range
SetActivationQuantizer ==
    /\ \E q \in {NoQuantizer, <<NewQuantizer>>, <<[initialized |-> TRUE, min |-> -1, max |-> 2]>>} :
           \/ /\ Len(input_quantizers) = 1
              /\ input_quantizers' = [input_quantizers EXCEPT ![1] = q]
              /\ UNCHANGED output_quantizers
           \/ /\ Len(output_quantizers) = 1
              /\ output_quantizers' = [output_quantizers EXCEPT ![1] = q]
              /\ UNCHANGED input_quantizers
    /\ module_returned' = NoModuleReturn /\ seen_parameters' = NoParameters
    /\ UNCHANGED <<_parameters, param_quantizers>>
    /\ UNCHANGED outside_module

\* module.input_quantizers / module.output_quantizers = nn.ModuleList([None] * n)
SetActivationQuantizerList ==
    /\ \E n \in QuantizerListLengths :
           \/ /\ input_quantizers' = [i \in 1..n |-> NoQuantizer]
              /\ UNCHANGED output_quantizers
           \/ /\ output_quantizers' = [i \in 1..n |-> NoQuantizer]
              /\ UNCHANGED input_quantizers
    /\ module_returned' = NoModuleReturn /\ seen_parameters' = NoParameters
    /\ UNCHANGED <<_parameters, param_quantizers>>
    /\ UNCHANGED outside_module

NextModule ==
    \/ QuantizedForward
    \/ SetParameter
    \/ SetParamQuantizer
    \/ SetActivationQuantizer
    \/ SetActivationQuantizerList

SpecModule == InitModule /\ [][NextModule]_vars


\* ---- claims about the fake-quantized module

\* C12: a quantized_forward that returns or raises (in a parameter quantizer, in an input
\* or output quantizer or in the original forward) leaves every parameter with the value
\* it had before the call; the original forward, when it is reached, finds each parameter
\* that has a quantizer replaced by its quantized value, and nothing else does.
C12_ParametersRestored ==
    [][module_returned'.kind # "" =>
          /\ _parameters' = _parameters
          /\ module_returned'.forward_ran =>
                 \A i \in 1..Len(ParamNames) :
                     LET param_name      == ParamNames[i]
                         param_quantizer == param_quantizers'[param_name]
                     IN  seen_parameters'[param_name] =
                             IF param_quantizer = <<>> THEN _parameters[param_name]
                             ELSE quantizer_call(param_quantizer[1],
                                                 _parameters[param_name]).tensor
          /\ ~module_returned'.forward_ran => seen_parameters' = seen_parameters]_vars

\* C27: a quantized_forward whose input quantizers did not raise passes to the original
\* forward as many positional inputs as it received, in the order received, each one
\* quantized by the quantizer at its position and unchanged when that quantizer is None;
\* when it returns, it returns as many outputs as the original forward produced, each
\* unchanged when the quantizer at its position is None; this for every length of
\* input_quantizers and output_quantizers.
C27_InputsAndOutputsKept ==
    module_returned.kind \in {"output", "TypeError", "ForwardError"} =>
        /\ Len(module_returned.forward_inputs) = Len(module_returned.inputs)
        /\ \A i \in 1..Len(module_returned.inputs) :
               module_returned.forward_inputs[i] =
                   IF i > Len(input_quantizers) \/ input_quantizers[i] = NoQuantizer
                   THEN module_returned.inputs[i]
                   ELSE quantizer_call(input_quantizers[i][1],
                                       module_returned.inputs[i]).tensor
        /\ module_returned.kind = "output" =>
               /\ Len(module_returned.outputs) = Len(module_returned.forward_outputs)
               /\ \A i \in 1..Len(module_returned.outputs) :
                      (i > Len(output_quantizers) \/ output_quantizers[i] = NoQuantizer) =>
                          module_returned.outputs[i] = module_returned.forward_outputs[i]

\* the weight was replaced by its quantized value when the quantizer of the bias raised
C12_Witness ==
    /\ module_returned.kind = "RuntimeError" /\ ~module_returned.forward_ran
    /\ input_quantizers = <<NoQuantizer>>
    /\ param_quantizers.weight # <<>> /\ param_quantizers.bias # <<>>
    /\ param_quantizers.weight[1].initialized /\ ~param_quantizers.bias[1].initialized
    /\ quantizer_call(param_quantizers.weight[1], _parameters.weight).tensor
           # _parameters.weight


\* ========================================================================
\* experimental/v2/nn/fake_quant.py, true_quant.py: wrap and implements
\* ========================================================================
\* A class object is its number in class_objs; an OrderedDict is the sequence of its
\* [key, value] items in insertion order.

\* the classes given as module_cls: two subclasses of torch.nn.Module and one that is not
BaseTypes == {"Linear", "GELU", "object"}

\* issubclass(module_cls, nn.Module)
issubclass_of_Module(module_cls) == module_cls \in {"Linear", "GELU"}

\* the position of key in the dictionary, 0 when it is not in it
DictIndex(d, key) ==
    IF \E i \in 1..Len(d) : d[i].key = key
    THEN CHOOSE i \in 1..Len(d) : d[i].key = key
    ELSE 0

\* d[key] = value
DictSet(d, key, value) ==
    IF DictIndex(d, key) = 0 THEN Append(d, [key |-> key, value |-> value])
    ELSE [d EXCEPT ![DictIndex(d, key)].value = value]

\* d[key]
DictGet(d, key) == d[DictIndex(d, key)].value

Registry ==
    [class_objs |-> class_objs, quantized_classes_map |-> quantized_classes_map,
     cls_to_qcls |-> cls_to_qcls, qcls_to_cls |-> qcls_to_cls,
     returned |-> registry_returned]

\* type(quantized_cls_name, base_classes, ...) or a class statement: a new class object
NewClass(r, name, mixin, module_cls) ==
    [r EXCEPT !.class_objs = Append(@, [name |-> name, mixin |-> mixin, base |-> module_cls])]

ReturnClass(r, call, mixin, module_cls, quantized_cls) ==
    [r EXCEPT !.returned = [call |-> call, mixin |-> mixin, module_cls |-> module_cls,
                            kind |-> "class", cls |-> quantized_cls]]

RaiseValueError(r, call, mixin, module_cls) ==
    [r EXCEPT !.returned = [call |-> call, mixin |-> mixin, module_cls |-> module_cls,
                            kind |-> "ValueError", cls |-> 0]]

\* FakeQuantizationMixin.implements(module_cls)(quantized_cls)
fake_implements(r, module_cls, quantized_cls) ==
    ReturnClass([r EXCEPT !.quantized_classes_map = DictSet(@, module_cls, quantized_cls)],
                "implements", "Fake", module_cls, quantized_cls)

\* A slip: a new class is made whether or not module_cls is registered.
fake_wrap_without_lookup(r, module_cls) ==
    IF ~issubclass_of_Module(module_cls) THEN RaiseValueError(r, "wrap", "Fake", module_cls)
    ELSE LET made == NewClass(r, "FakeQuant", "FakeQuantizationMixin", module_cls)
         IN  [fake_implements(made, module_cls, Len(made.class_objs))
                  EXCEPT !.returned.call = "wrap"]

\* FakeQuantizationMixin.wrap(module_cls)
fake_wrap(r, module_cls) ==
    IF ~issubclass_of_Module(module_cls) THEN RaiseValueError(r, "wrap", "Fake", module_cls)
    ELSE IF DictIndex(r.quantized_classes_map, module_cls) # 0
    THEN ReturnClass(r, "wrap", "Fake", module_cls, DictGet(r.quantized_classes_map, module_cls))
    ELSE LET made == NewClass(r, "FakeQuant", "FakeQuantizationMixin", module_cls)
         IN  [fake_implements(made, module_cls, Len(made.class_objs))
                  EXCEPT !.returned.call = "wrap"]

\* TrueQuantizationMixin.implements(module_cls)(quantized_cls)
true_implements(r, module_cls, quantized_cls) ==
    ReturnClass([r EXCEPT !.cls_to_qcls = DictSet(@, module_cls, quantized_cls),
                          !.qcls_to_cls = DictSet(@, quantized_cls, module_cls)],
                "implements", "True", module_cls, quantized_cls)

\* TrueQuantizationMixin.wrap(module_cls)
true_wrap(r, module_cls) ==
    IF ~issubclass_of_Module(module_cls) THEN RaiseValueError(r, "wrap", "True", module_cls)
    ELSE IF DictIndex(r.cls_to_qcls, module_cls) # 0
    THEN ReturnClass(r, "wrap", "True", module_cls, DictGet(r.cls_to_qcls, module_cls))
    ELSE LET made == NewClass(r, "TrueQuantized", "TrueQuantizationMixin", module_cls)
         IN  [true_implements(made, module_cls, Len(made.class_objs))
                  EXCEPT !.returned.call = "wrap"]

SetRegistry(r) ==
    /\ Len(r.class_objs) <= MaxClasses
    /\ class_objs' = r.class_objs
    /\ quantized_classes_map' = r.quantized_classes_map
    /\ cls_to_qcls' = r.cls_to_qcls
    /\ qcls_to_cls' = r.qcls_to_cls
    /\ registry_returned' = r.returned

\* the class attributes as the class statements leave them: empty dictionaries
InitRegistry ==
    /\ WinnowIdle /\ AffineIdle /\ QuantizerIdle /\ GraphIdle /\ ModuleIdle /\ LayerIdle
    /\ BnIdle /\ BuilderIdle /\ OnnxIdle
    /\ class_objs = <<>>
    /\ quantized_classes_map = <<>> /\ cls_to_qcls = <<>> /\ qcls_to_cls = <<>>
    /\ registry_returned = NoRegistryReturn

\* FakeQuantizationMixin.wrap(module_cls)
FakeWrap ==
    /\ \E module_cls \in BaseTypes : SetRegistry(fake_wrap(Registry, module_cls))
    /\ UNCHANGED outside_registry

\* @FakeQuantizationMixin.implements(module_cls) on a class statement: the class
\* statement makes a new class object, the decorator registers it
FakeImplements ==
    /\ \E module_cls \in BaseTypes :
           SetRegistry(fake_implements(
               NewClass(Registry, "FakeQuantized", "FakeQuantizationMixin", module_cls),
               module_cls, Len(class_objs) + 1))
    /\ UNCHANGED outside_registry

\* TrueQuantizationMixin.wrap(module_cls)
TrueWrap ==
    /\ \E module_cls \in BaseTypes : SetRegistry(true_wrap(Registry, module_cls))
    /\ UNCHANGED outside_registry

\* @TrueQuantizationMixin.implements(module_cls) on a class statement
TrueImplements ==
    /\ \E module_cls \in BaseTypes :
           SetRegistry(true_implements(
               NewClass(Registry, "TrueQuantized", "TrueQuantizationMixin", module_cls),
               module_cls, Len(class_objs) + 1))
    /\ UNCHANGED outside_registry

NextRegistry ==
    \/ FakeWrap
    \/ FakeImplements
    \/ TrueWrap
    \/ TrueImplements

SpecRegistry == InitRegistry /\ [][NextRegistry]_vars


\* ---- claims about the registries

\* the call made by the step was wrap(module_cls) of the mixin, with module_cls registered
\* in the dictionary d when the call was made
WrapOfRegistered(mixin, d) ==
    /\ registry_returned'.call = "wrap" /\ registry_returned'.mixin = mixin
    /\ DictIndex(d, registry_returned'.module_cls) # 0

\* the call returned the class registered for module_cls in d and left the registries as
\* they were
ReturnedRegistered(d) ==
    /\ registry_returned'.kind = "class"
    /\ registry_returned'.cls = DictGet(d, registry_returned'.module_cls)
    /\ UNCHANGED <<class_objs, quantized_classes_map, cls_to_qcls, qcls_to_cls>>

\* C13 as stated: wrap(T) for any T that has a registered wrapped type returns that type
\* and leaves the registry as it was.
C13_WrapReturnsRegistered ==
    [][/\ WrapOfRegistered("Fake", quantized_classes_map) =>
              ReturnedRegistered(quantized_classes_map)
       /\ WrapOfRegistered("True", cls_to_qcls) => ReturnedRegistered(cls_to_qcls)]_vars

\* C13: wrap(T) for a subclass T of torch.nn.Module that has a registered wrapped type
\* returns that type, makes no class and leaves the registries as they were, so that any
\* number of wrap(T) calls yield the same class object; for a T that is not a subclass of
\* torch.nn.Module wrap raises ValueError and leaves the registries as they were, whether
\* T is registered or not.
C13_WrapOfModuleTypeReturnsRegistered ==
    [][/\ (WrapOfRegistered("Fake", quantized_classes_map)
              /\ issubclass_of_Module(registry_returned'.module_cls)) =>
              ReturnedRegistered(quantized_classes_map)
       /\ (WrapOfRegistered("True", cls_to_qcls)
              /\ issubclass_of_Module(registry_returned'.module_cls)) =>
              ReturnedRegistered(cls_to_qcls)
       /\ (registry_returned'.call = "wrap"
              /\ ~issubclass_of_Module(registry_returned'.module_cls)) =>
              /\ registry_returned'.kind = "ValueError"
              /\ UNCHANGED <<class_objs, quantized_classes_map, cls_to_qcls,
                             qcls_to_cls>>]_vars

\* wrap returned a class that a decorator registered earlier, other classes were made
\* since
C13_Witness ==
    /\ registry_returned.call = "wrap" /\ registry_returned.mixin = "Fake"
    /\ registry_returned.kind = "class"
    /\ registry_returned.cls < Len(class_objs)
    /\ class_objs[registry_returned.cls].name = "FakeQuantized"
    /\ DictGet(quantized_classes_map, registry_returned.module_cls) = registry_returned.cls

\* every key of the dictionary d keeps its value in the dictionary e
KeepsValues(d, e) ==
    \A i \in 1..Len(d) : DictIndex(e, d[i].key) # 0 /\ DictGet(e, d[i].key) = d[i].value

\* C14: once a base type has a wrapped type registered in quantized_classes_map or in
\* cls_to_qcls, no wrap or implements call changes the wrapped type registered for it.
C14_RegistryWriteOnce ==
    [][/\ KeepsValues(quantized_classes_map, quantized_classes_map')
       /\ KeepsValues(cls_to_qcls, cls_to_qcls')]_vars


\* ========================================================================
\* experimental/v2/nn/true_quant.py: TrueQuantizationMixin.select_operator
\* ========================================================================
\* A positional argument list is the kind of its input tensor, keyword arguments are the
\* set of their names. A predicate is [inputs, needs]: it accepts a call whose input is
\* in inputs and whose keywords include needs.

Libraries == {"LibA", "LibB", "LibC"}

Inputs == {"int8", "int4", "float"}

\* backend.get_kernel(op_key): the (predicate, operator) pairs of an operator library
get_kernel(backend, key) ==
    CASE backend = "LibA" ->
             << [predicate |-> [inputs |-> {"int8"}, needs |-> {}], operator |-> "A1"],
                [predicate |-> [inputs |-> {"int8", "int4"}, needs |-> {}],
                 operator |-> "A2"] >>
      [] backend = "LibB" ->
             << [predicate |-> [inputs |-> {"int4", "float"}, needs |-> {"output_encodings"}],
                 operator |-> "B1"],
                [predicate |-> [inputs |-> Inputs, needs |-> {"block_size"}],
                 operator |-> "B2"] >>
      [] OTHER ->
             IF key = "linear"
             THEN << [predicate |-> [inputs |-> {"int4"}, needs |-> {}], operator |-> "C1"] >>
             ELSE <<>>

\* predicate(*args, **kwargs)
Accepts(predicate, args, kwargs) == args \in predicate.inputs /\ predicate.needs \subseteq kwargs

\* functional_op_arguments(input_tensor) of TrueQuantizedLinear, TrueQuantizedGelu and
\* TrueQuantizedLayerNorm: the keyword arguments of the functional operator
functional_op_arguments(key) ==
    CASE key = "linear" -> {"bias"}
      [] key = "gelu" -> {"approximate"}
      [] OTHER -> {"weight", "bias", "eps"}

\* get_true_quant_backend()
get_true_quant_backend == _CURRENT_TRUE_QUANT_BACKEND

\* an available_backends() that appends the default libraries whatever the flag is
available_backends_with_defaults == _backends \o get_true_quant_backend

\* available_backends()
available_backends ==
    IF allow_backend_fallback \/ _backends = <<>>
    THEN _backends \o get_true_quant_backend
    ELSE _backends

\* _add_backend_kwargs(backend, **kwargs)
_add_backend_kwargs(backend, kwargs) == kwargs \cup _backend_kwargs[backend]

\* the inner loop of select_operator over backend.get_kernel(self.op_key), from the j-th
\* pair on: the first operator whose predicate accepts, "" if none does
RECURSIVE FirstKernel(_, _, _, _)
FirstKernel(pairs, j, op_args, backend_kwargs) ==
    IF j > Len(pairs) THEN ""
    ELSE IF Accepts(pairs[j].predicate, op_args, backend_kwargs) THEN pairs[j].operator
    ELSE FirstKernel(pairs, j + 1, op_args, backend_kwargs)

\* the outer loop of select_operator over available_backends(), from the i-th on
RECURSIVE FirstBackend(_, _, _, _)
FirstBackend(backends, i, op_args, kwargs) ==
    IF i > Len(backends) THEN [operator |-> "", kwargs |-> {}]
    ELSE LET backend_kwargs == _add_backend_kwargs(backends[i], kwargs)
             operator == FirstKernel(get_kernel(backends[i], op_key), 1, op_args,
                                     backend_kwargs)
         IN  IF operator # "" THEN [operator |-> operator, kwargs |-> backend_kwargs]
             ELSE FirstBackend(backends, i + 1, op_args, kwargs)

\* select_operator(args, kwargs); a keyword argument in the call makes
\* functional_op_arguments(input_tensor) raise TypeError
select_operator(args, kwargs) ==
    LET op_args   == args
        op_kwargs == functional_op_arguments(op_key) \cup {"output_encodings"}
        found     == FirstBackend(available_backends, 1, op_args, kwargs)
    IN  IF kwargs # {} THEN [NotSelected EXCEPT !.kind = "TypeError"]
        ELSE IF found.operator # ""
        THEN [NotSelected EXCEPT !.kind = "kernel", !.operator = found.operator,
                                 !.args = op_args, !.kwargs = found.kwargs]
        ELSE IF allow_float_fallback
        THEN [NotSelected EXCEPT !.kind = "fallback", !.operator = "fallback_operator",
                                 !.args = args, !.kwargs = kwargs]
        ELSE [NotSelected EXCEPT !.kind = "RuntimeError",
                                 !.message_args = op_args, !.message_kwargs = op_kwargs]

\* the lists of distinct libraries given as backends
BackendLists ==
    {<<>>} \cup {<<a>> : a \in Libraries}
           \cup {<<pair[1], pair[2]>> : pair \in {q \in Libraries \X Libraries : q[1] # q[2]}}

\* __init__(backend=None, float_fallback, backend_fallback=False) of a layer
InitLayer ==
    /\ WinnowIdle /\ AffineIdle /\ QuantizerIdle /\ GraphIdle /\ ModuleIdle /\ RegistryIdle
    /\ BnIdle /\ BuilderIdle /\ OnnxIdle
    /\ op_key \in {"linear", "gelu", "layer_norm"}
    /\ _backends = <<>>
    /\ allow_backend_fallback = FALSE
    /\ allow_float_fallback \in BOOLEAN
    /\ _backend_kwargs = [b \in Libraries |-> {}]
    /\ _CURRENT_TRUE_QUANT_BACKEND = <<>>
    /\ selected = NotSelected

\* set_backend(backend, allow_fallback)
SetBackend ==
    /\ \E backend \in BackendLists, allow_fallback \in BOOLEAN :
           /\ allow_backend_fallback' = allow_fallback
           /\ _backends' = backend
    /\ selected' = NotSelected
    /\ UNCHANGED <<op_key, allow_float_fallback, _backend_kwargs, _CURRENT_TRUE_QUANT_BACKEND>>
    /\ UNCHANGED outside_layer

\* set_default_true_quant_backend(backends)
SetDefaultTrueQuantBackend ==
    /\ \E backends \in BackendLists : _CURRENT_TRUE_QUANT_BACKEND' = backends
    /\ selected' = NotSelected
    /\ UNCHANGED <<op_key, _backends, allow_backend_fallback, allow_float_fallback,
                   _backend_kwargs>>
    /\ UNCHANGED outside_layer

\* set_backend_kwargs(backend, **kwargs)
SetBackendKwargs ==
    /\ \E backend \in Libraries, kwargs \in {{}, {"block_size"}} :
           _backend_kwargs' = [_backend_kwargs EXCEPT ![backend] = kwargs]
    /\ selected' = NotSelected
    /\ UNCHANGED <<op_key, _backends, allow_backend_fallback, allow_float_fallback,
                   _CURRENT_TRUE_QUANT_BACKEND>>
    /\ UNCHANGED outside_layer

\* select_operator(args, kwargs), as quantized_operator calls it
SelectOperator ==
    /\ \E args \in Inputs, kwargs \in {{}, {"inplace"}} :
           selected' = select_operator(args, kwargs)
    /\ UNCHANGED <<op_key, _backends, allow_backend_fallback, allow_float_fallback,
                   _backend_kwargs, _CURRENT_TRUE_QUANT_BACKEND>>
    /\ UNCHANGED outside_layer

NextLayer ==
    \/ SetBackend
    \/ SetDefaultTrueQuantBackend
    \/ SetBackendKwargs
    \/ SelectOperator

SpecLayer == InitLayer /\ [][NextLayer]_vars


\* ---- claims about select_operator

\* the (predicate, operator) pairs of the backends, in the order of the backends and,
\* within a backend, of its pairs
RECURSIVE PairsOf(_, _)
PairsOf(backends, i) ==
    IF i > Len(backends) THEN <<>>
    ELSE [j \in 1..Len(get_kernel(backends[i], op_key)) |->
              [backend   |-> backends[i],
               predicate |-> get_kernel(backends[i], op_key)[j].predicate,
               operator  |-> get_kernel(backends[i], op_key)[j].operator]]
         \o PairsOf(backends, i + 1)

\* the positional and keyword arguments of the call to the functional operator
CallArgs == IF selected.kind = "RuntimeError" THEN selected.message_args ELSE selected.args
CallKwargs == functional_op_arguments(op_key) \cup {"output_encodings"}

\* C15: select_operator walks the available backends in order (the layer's own, then the
\* default ones) and their (predicate, kernel) pairs in order and returns the kernel of
\* the first pair whose predicate accepts the arguments of the call, never a later one;
\* when no predicate accepts them it returns the float fallback if allow_float_fallback
\* is set and otherwise raises a RuntimeError that names the arguments attempted.
C15_FirstAcceptingKernel ==
    selected.kind \in {"kernel", "fallback", "RuntimeError"} =>
        LET pairs == PairsOf(available_backends, 1)
            accepting == {k \in 1..Len(pairs) :
                             Accepts(pairs[k].predicate, CallArgs,
                                     CallKwargs \cup _backend_kwargs[pairs[k].backend])}
        IN  IF accepting # {}
            THEN /\ selected.kind = "kernel"
                 /\ \E k \in accepting :
                        /\ \A l \in accepting : k <= l
                        /\ selected.operator = pairs[k].operator
            ELSE IF allow_float_fallback
            THEN selected.kind = "fallback" /\ selected.operator = "fallback_operator"
            ELSE /\ selected.kind = "RuntimeError"
                 /\ selected.message_args = CallArgs
                 /\ selected.message_kwargs = CallKwargs

\* the operators of the kernels that the libraries of a list offer for the layer's op_key
OperatorsOf(backends) ==
    UNION {{get_kernel(backends[i], op_key)[j].operator :
               j \in 1..Len(get_kernel(backends[i], op_key))} : i \in 1..Len(backends)}

MaxBatches == 3

BnVariables == {"moving_mean", "moving_variance"}

\* an exact quotient
Quotient(num, den) == [num |-> num, den |-> den]

\* a + b and a / n on quotients
QuotientSum(a, b) == Quotient(a.num * b.den + b.num * a.den, a.den * b.den)

QuotientOver(a, n) == Quotient(a.num, a.den * n)

QuotientsEqual(a, b) == a.num * b.den = b.num * a.den

\* a batch, by the statistics its forward pass leaves in the moving mean and the moving
\* variance while the momentum is 0 and the layer is in training mode
BnBatches == [moving_mean : {Quotient(1, 1), Quotient(3, 1)},
              moving_variance : {Quotient(2, 1), Quotient(4, 1)}]

RECURSIVE DatasetsOfLength(_)
DatasetsOfLength(n) ==
    IF n = 0 THEN {<<>>}
    ELSE {Append(dataset, batch) : dataset \in DatasetsOfLength(n - 1), batch \in BnBatches}

\* next(bn_dataset_iterator) on a dataset that has no batch left: the end of the dataset
\* reaches the loop as tf.errors.OutOfRangeError
OutOfRangeError(iterator) == iterator = <<>>

\* np.zeros(v.shape) per moving mean / variance
ZeroSums == [v \in BnVariables |-> Quotient(0, 1)]

\* the call reestimate_bn_stats(sess, ..., bn_re_estimation_dataset, bn_num_batches) begins
InitBn ==
    /\ WinnowIdle /\ AffineIdle /\ QuantizerIdle /\ GraphIdle /\ ModuleIdle /\ RegistryIdle
    /\ LayerIdle /\ BuilderIdle /\ OnnxIdle
    /\ bn_pc = "save_checkpoints"
    /\ sess = [moving_mean |-> Quotient(0, 1), moving_variance |-> Quotient(1, 1),
               momentum |-> "0.99", training |-> FALSE]
    /\ bn_dataset_iterator \in UNION {DatasetsOfLength(n) : n \in 0..MaxBatches}
    /\ bn_num_batches \in 1..MaxBatches
    /\ batch_index = 0
    /\ sum_dict = ZeroSums
    /\ bn_checkpoints = NoSession
    /\ seen_values = <<>>
    /\ bn_returned = ""

\* the checkpoints are saved, _reset_bn_stats sets every momentum to 0.0 and every
\* training flag to True, sum_dict is zeroed
ResetBnStats ==
    /\ bn_pc = "save_checkpoints"
    /\ bn_checkpoints' = sess
    /\ sess' = [sess EXCEPT !.momentum = "0.0", !.training = TRUE]
    /\ sum_dict' = ZeroSums
    /\ bn_pc' = "for_batch_index"
    /\ UNCHANGED <<bn_dataset_iterator, bn_num_batches, batch_index, seen_values,
                   bn_returned>>
    /\ UNCHANGED outside_bn

\* one iteration of for batch_index in range(bn_num_batches): next() of an exhausted
\* dataset ends the loop; otherwise the forward pass updates the BN statistics, which are
\* read and added to sum_dict
ForwardBatch ==
    /\ bn_pc = "for_batch_index"
    /\ IF OutOfRangeError(bn_dataset_iterator)
       THEN /\ bn_pc' = "average"                      \* except OutOfRangeError: break
            /\ UNCHANGED <<sess, bn_dataset_iterator, batch_index, sum_dict, seen_values>>
       ELSE LET batch_data == Head(bn_dataset_iterator)
                ran == [sess EXCEPT !.moving_mean = batch_data.moving_mean,
                                    !.moving_variance = batch_data.moving_variance]
            IN  /\ sess' = ran
                /\ bn_dataset_iterator' = Tail(bn_dataset_iterator)
                /\ sum_dict' = [v \in BnVariables |-> QuotientSum(sum_dict[v], ran[v])]
                /\ seen_values' = Append(seen_values, [v \in BnVariables |-> ran[v]])
                /\ IF batch_index = bn_num_batches - 1
                   THEN bn_pc' = "average" /\ UNCHANGED batch_index
                   ELSE bn_pc' = "for_batch_index" /\ batch_index' = batch_index + 1
    /\ UNCHANGED <<bn_num_batches, bn_checkpoints, bn_returned>>
    /\ UNCHANGED outside_bn

\* (3) average mean&var, (4) apply the result, restore momentum and training, return
AverageAndApply ==
    /\ bn_pc = "average"
    /\ LET averaged == [v \in BnVariables |-> QuotientOver(sum_dict[v], bn_num_batches)]
       IN  /\ sum_dict' = averaged
           /\ sess' = [moving_mean |-> averaged["moving_mean"],
                       moving_variance |-> averaged["moving_variance"],
                       momentum |-> bn_checkpoints.momentum,
                       training |-> bn_checkpoints.training]
    /\ bn_pc' = "returned"
    /\ bn_returned' = "handle"
    /\ UNCHANGED <<bn_dataset_iterator, bn_num_batches, batch_index, bn_checkpoints,
                   seen_values>>
    /\ UNCHANGED outside_bn

\* the errors sess.run(output_tensors, feed_dict=feed_dict) raises for a batch it cannot
\* feed or evaluate; none of them is tf.errors.OutOfRangeError
BatchErrors == {"InvalidArgumentError"}

\* one iteration of for batch_index in range(bn_num_batches) whose batch raises an error
\* other than OutOfRangeError: the except clause does not match, nothing else encloses the
\* loop, and the error leaves reestimate_bn_stats
ForwardBatchRaises ==
    /\ bn_pc = "for_batch_index"
    /\ ~OutOfRangeError(bn_dataset_iterator)
    /\ \E error \in BatchErrors :
           /\ bn_dataset_iterator' = Tail(bn_dataset_iterator)
           /\ bn_pc' = "raised"
           /\ bn_returned' = error
    /\ UNCHANGED <<sess, bn_num_batches, batch_index, sum_dict, bn_checkpoints, seen_values>>
    /\ UNCHANGED outside_bn

\* handle.remove(): cleanup assigns the checkpoints back unless _removed is set; bn_pc is
\* "returned" while _removed is False and "removed" once it is True
HandleRemove ==
    /\ bn_pc \in {"returned", "removed"}
    /\ bn_returned = "handle"
    /\ IF bn_pc = "returned"                          \* if not self._removed
       THEN sess' = bn_checkpoints
       ELSE UNCHANGED sess
    /\ bn_pc' = "removed"
    /\ UNCHANGED <<bn_dataset_iterator, bn_num_batches, batch_index, sum_dict,
                   bn_checkpoints, seen_values, bn_returned>>
    /\ UNCHANGED outside_bn

NextBn ==
    \/ ResetBnStats
    \/ ForwardBatch
    \/ ForwardBatchRaises
    \/ AverageAndApply
    \/ HandleRemove

SpecBn == InitBn /\ [][NextBn]_vars

\* ---- claims about reestimate_bn_stats

\* the sum of the values of variable v read after the first n batches
RECURSIVE SumOfSeen(_, _)
SumOfSeen(v, n) ==
    IF n = 0 THEN Quotient(0, 1) ELSE QuotientSum(SumOfSeen(v, n - 1), seen_values[n][v])

\* C19: when the dataset yields only k batches, 0 < k < bn_num_batches, the call returns
\* its handle without raising and every BN moving mean and moving variance holds the sum
\* of the k values read after each batch, divided by k.
C19_AverageOverBatchesSeen ==
    (bn_pc = "returned" /\ 0 < Len(seen_values) /\ Len(seen_values) < bn_num_batches) =>
        /\ bn_returned = "handle"
        /\ \A v \in BnVariables :
               QuotientsEqual(sess[v],
                              QuotientOver(SumOfSeen(v, Len(seen_values)), Len(seen_values)))

\* C30: whenever reestimate_bn_stats ends, by its return or by an error raised while a batch
\* is processed, the momentum and the training flag of every BN hold the values they had
\* before the call; after a return, remove() on the handle sets the moving mean and the
\* moving variance back to the values before the call, and a second remove() changes
\* nothing.
C30_MomentumAndTrainingRestored ==
    /\ bn_pc \in {"returned", "raised", "removed"} =>
           /\ sess.momentum = bn_checkpoints.momentum
           /\ sess.training = bn_checkpoints.training
    /\ bn_pc = "removed" => sess = bn_checkpoints

\* ========================================================================
\* experimental/v2/quantization/wrappers/builder.py: LazyQuantizer
\* ========================================================================

\* the longest tuple or list assigned
MaxTupleLen == 3

QuantSchemes == {"post_training_tf", "post_training_tf_enhanced",
                 "post_training_percentile", "training_range_learning_with_tf_init"}

RECURSIVE ItemsOfLength(_)
ItemsOfLength(n) ==
    IF n = 0 THEN {<<>>}
    ELSE {Append(items, item) : items \in ItemsOfLength(n - 1), item \in {-1, 0, 1}}

\* the values a caller may assign: None, and tuples and lists of up to MaxTupleLen numbers
AssignedValues ==
    {NoneValue}
    \cup [type : {"tuple", "list"}, items : UNION {ItemsOfLength(n) : n \in 0..MaxTupleLen}]

\* the LazyQuantizer, with the exception its method raised ("" if none)
LazyQuantizer ==
    [quant_scheme |-> quant_scheme,
     _encoding_min_max_fixed_vals |-> _encoding_min_max_fixed_vals, raised |-> ""]

\* log_with_error_and_assert_if_false(condition, logger, error_msg): the exception raised,
\* "" if none
log_with_error_and_assert_if_false(condition) ==
    IF condition THEN "" ELSE "AssertionError"

\* a setter that stores the value and changes the scheme before it validates
encoding_min_max_fixed_vals_stored_first(self, min_max_vals) ==
    LET is_tuple == log_with_error_and_assert_if_false(min_max_vals.type = "tuple")
        of_two == IF is_tuple # "" THEN is_tuple
                  ELSE log_with_error_and_assert_if_false(Len(min_max_vals.items) = 2)
        ordered == IF of_two # "" THEN of_two
                   ELSE log_with_error_and_assert_if_false(
                            min_max_vals.items[1] < min_max_vals.items[2])
    IN  [self EXCEPT !.quant_scheme = "post_training_tf",
                     !._encoding_min_max_fixed_vals = min_max_vals,
                     !.raised = ordered]

\* @encoding_min_max_fixed_vals.setter: the three checks in order, each reached only when
\* the one before passed, then the assignments
encoding_min_max_fixed_vals(self, min_max_vals) ==
    LET is_tuple == log_with_error_and_assert_if_false(min_max_vals.type = "tuple")
        of_two == IF is_tuple # "" THEN is_tuple
                  ELSE log_with_error_and_assert_if_false(Len(min_max_vals.items) = 2)
        ordered == IF of_two # "" THEN of_two
                   ELSE log_with_error_and_assert_if_false(
                            min_max_vals.items[1] < min_max_vals.items[2])
    IN  IF ordered # "" THEN [self EXCEPT !.raised = ordered]
        ELSE [self EXCEPT !.quant_scheme = "post_training_tf",
                          !._encoding_min_max_fixed_vals = min_max_vals]

\* LazyQuantizer.__init__(..., quant_scheme, ...)
InitBuilder ==
    /\ WinnowIdle /\ AffineIdle /\ QuantizerIdle /\ GraphIdle /\ ModuleIdle /\ RegistryIdle
    /\ LayerIdle /\ BnIdle /\ OnnxIdle
    /\ quant_scheme \in QuantSchemes
    /\ _encoding_min_max_fixed_vals = NoneValue
    /\ builder_returned = NoAssignment

\* quantizer.encoding_min_max_fixed_vals = min_max_vals
SetEncodingMinMaxFixedVals ==
    /\ quant_scheme # ""
    /\ \E min_max_vals \in AssignedValues :
           LET self == encoding_min_max_fixed_vals(LazyQuantizer, min_max_vals)
           IN  /\ quant_scheme' = self.quant_scheme
               /\ _encoding_min_max_fixed_vals' = self._encoding_min_max_fixed_vals
               /\ builder_returned' =
                      [kind |-> IF self.raised = "" THEN "None" ELSE self.raised,
                       min_max_vals |-> min_max_vals]
    /\ UNCHANGED outside_builder

NextBuilder == SetEncodingMinMaxFixedVals

SpecBuilder == InitBuilder /\ [][NextBuilder]_vars

\* ---- claims about the LazyQuantizer

\* a tuple (min, max) with min < max
IsValidRange(value) ==
    /\ value.type = "tuple"
    /\ Len(value.items) = 2
    /\ value.items[1] < value.items[2]

\* C20: assigning encoding_min_max_fixed_vals a value that is not a tuple, is not of
\* length 2, or whose first element is not less than its second raises and leaves the
\* stored range and quant_scheme as they were; assigning a valid (min, max) tuple stores
\* it and sets quant_scheme to post_training_tf.
C20_InvalidRangeRejected ==
    [][IF IsValidRange(builder_returned'.min_max_vals)
       THEN /\ builder_returned'.kind = "None"
            /\ _encoding_min_max_fixed_vals' = builder_returned'.min_max_vals
            /\ quant_scheme' = "post_training_tf"
       ELSE /\ builder_returned'.kind = "AssertionError"
            /\ _encoding_min_max_fixed_vals' = _encoding_min_max_fixed_vals
            /\ quant_scheme' = quant_scheme]_vars

\* (1, 0) was assigned after (-1, 1): the assignment raised and (-1, 1) is still stored
C20_Witness ==
    /\ builder_returned = [kind |-> "AssertionError",
                           min_max_vals |-> [type |-> "tuple", items |-> <<1, 0>>]]
    /\ _encoding_min_max_fixed_vals = [type |-> "tuple", items |-> <<-1, 1>>]
    /\ quant_scheme = "post_training_tf"

\* ========================================================================
\* aimet_onnx/utils.py: remove_nodes_with_type
\* ========================================================================

\* the largest number of nodes of a graph
MaxOnnxNodes == 3

OnnxOpTypes == {"Identity", "Relu"}

\* the nodes a graph may have at position i: node i writes tensor i and reads a tensor
\* written before it, the graph's input (tensor 0), or nothing
NodesAt(i) ==
    [name : {i}, op_type : OnnxOpTypes,
     input : {<<>>} \cup {<<t>> : t \in 0..(i - 1)}, output : {<<i>>}]

RECURSIVE NodeListsOfLength(_)
NodeListsOfLength(n) ==
    IF n = 0 THEN {<<>>}
    ELSE {Append(nodes, last) : nodes \in NodeListsOfLength(n - 1), last \in NodesAt(n)}

OnnxGraphs ==
    {[node |-> nodes] : nodes \in UNION {NodeListsOfLength(n) : n \in 1..MaxOnnxNodes}}

\* list.remove(x) of a repeated field: the first element equal to x is taken out
RECURSIVE RemoveFirst(_, _)
RemoveFirst(list, x) ==
    IF list = <<>> THEN <<>>
    ELSE IF Head(list) = x THEN Tail(list)
    ELSE <<Head(list)>> \o RemoveFirst(Tail(list), x)

\* the first loop of remove_nodes_with_type, with the iterator of onnx_graph.node at
\* position index (0-based): the iterator yields node[index] and moves on by one
\* whether or not the body removes the node from the list it walks
RECURSIVE RemoveLoop(_, _, _)
RemoveLoop(call, type, index) ==
    IF index >= Len(call.graph.node) \/ call.exception # "" THEN call
    ELSE LET node == call.graph.node[index + 1]
         IN  IF node.op_type # type THEN RemoveLoop(call, type, index + 1)
             ELSE IF node.input = <<>>
             THEN [call EXCEPT !.exception = "IndexError"]            \* node.input[0]
             ELSE RemoveLoop(
                      [call EXCEPT !.input_output_pairs =
                                       (node.output[1] :> node.input[1]) @@ @,
                                   !.graph.node = RemoveFirst(@, node)],
                      type, index + 1)

\* the second loop, from the node at position index (0-based) on
RECURSIVE RenameLoop(_, _)
RenameLoop(call, index) ==
    IF index >= Len(call.graph.node) \/ call.exception # "" THEN call
    ELSE LET node == call.graph.node[index + 1]
         IN  IF node.input = <<>>
             THEN [call EXCEPT !.exception = "IndexError"]            \* node.input[0]
             ELSE IF node.input[1] \in DOMAIN call.input_output_pairs
             THEN RenameLoop(
                      [call EXCEPT !.graph.node[index + 1].input[1] =
                                       call.input_output_pairs[node.input[1]]],
                      index + 1)
             ELSE RenameLoop(call, index + 1)

\* remove_nodes_with_type(node_type, onnx_graph)
remove_nodes_with_type(type, graph) ==
    LET input_output_pairs == [output \in {} |-> 0]
        call == [graph |-> graph, input_output_pairs |-> input_output_pairs,
                 exception |-> ""]
    IN  RenameLoop(RemoveLoop(call, type, 0), 0)

InitOnnx ==
    /\ WinnowIdle /\ AffineIdle /\ QuantizerIdle /\ GraphIdle /\ ModuleIdle /\ RegistryIdle
    /\ LayerIdle /\ BnIdle /\ BuilderIdle
    /\ onnx_pc = "called"
    /\ node_type \in OnnxOpTypes
    /\ onnx_graph \in OnnxGraphs
    /\ original_graph = onnx_graph
    /\ onnx_exception = ""

RemoveNodesWithType ==
    /\ onnx_pc = "called"
    /\ LET call == remove_nodes_with_type(node_type, onnx_graph)
       IN  /\ onnx_graph' = call.graph
           /\ onnx_exception' = call.exception
           /\ onnx_pc' = IF call.exception = "" THEN "returned" ELSE "raised"
    /\ UNCHANGED <<node_type, original_graph>>
    /\ UNCHANGED outside_onnx

NextOnnx == RemoveNodesWithType

SpecOnnx == InitOnnx /\ [][NextOnnx]_vars

\* ---- claims about remove_nodes_with_type

\* the nodes of the given graph that have the type to remove
NodesOfType == {r \in 1..Len(original_graph.node) : original_graph.node[r].op_type = node_type}

\* C25: after remove_nodes_with_type(t, graph) has returned, no node of the graph's node
\* list has op type t, also when nodes of type t were next to each other in the list,
\* and every node left whose first input was the first output of a node of type t reads
\* the first input of that node.
C25_NoNodeOfTypeLeft ==
    onnx_pc = "returned" =>
        /\ \A k \in 1..Len(onnx_graph.node) : onnx_graph.node[k].op_type # node_type
        /\ \A k \in 1..Len(onnx_graph.node) :
               \A r \in NodesOfType :
                   LET before == original_graph.node[onnx_graph.node[k].name]
                   IN  (before.input # <<>>
                        /\ before.input[1] = original_graph.node[r].output[1]) =>
                           onnx_graph.node[k].input[1] = original_graph.node[r].input[1]


============================================================================
